---- MODULE Spec2Model ----
(***************************************************************************)
(* Model of api/index.js of the diRavena assistant: the serverless         *)
(* handler, the in-memory catalog cache with its refresh cycle             *)
(* (ensureCatalog), price reconciliation on a product page, lexical        *)
(* matching and the deterministic answer.                                  *)
(*                                                                         *)
(* Conventions.  A JavaScript string is a sequence of one-character        *)
(* strings.  A price is an integer number of cents; a number that is not a  *)
(* whole number of cents has no value in the model.  A value that may be   *)
(* null/undefined is a sequence of length at most one: <<>> is null and    *)
(* <<v>> is the value v.  A product name is a string, the empty string     *)
(* standing for null (both are falsy and the code only tests truthiness).  *)
(* The extracted content of a page stands for its HTML: a listing page is  *)
(* the list of {name, url} that extractFromListing returns for it, and a   *)
(* product page is its name and its two lists of collected price           *)
(* candidates.  A step of the model is one synchronous run of the event    *)
(* loop: the delivery of an event (a request, the completion of a network  *)
(* operation), or one job of the microtask queue, which runs from the      *)
(* continuation of a settled await to the next await.  Jobs run in the     *)
(* order in which they were queued and events are delivered only when the  *)
(* queue has been drained.                                                 *)
(***************************************************************************)
EXTENDS Integers, Sequences, FiniteSets, TLC

\* ---------------------------------------------------------------- bounds
\* Number of requests the server receives in a run.
MaxReq == 2
\* Number of products of the site when requests overlap, and when they
\* follow one another.
SmallShop == 2
MidShop == 2
\* Products beyond one full batch in the batch configuration.
ExtraShop == 1
\* The clock may advance by whole freshness windows and by single ms.
MaxHours == 1
MaxMillis == 1
\* Events the event loop may deliver before it drains the microtask queue,
\* when requests overlap.
MaxTurn == 2
\* Price candidates of each kind on a product page under test.
MaxCandidates == 2
\* Depth of nesting of the JSON-LD objects under test.
MaxNesting == 1
\* Products the catalogs under test are drawn from.
MaxPool == 11
\* prices put through the formatter: the multiples, up to MaxCents times,
\* of one cent and of 9.97
MaxCents == 149
\* Date.now() when the process starts, counted from an origin that keeps it
\* within the range of TLC's integers; like every real clock value
\* it lies more than MAX_AGE_MS after the initial lastScrape of 0.
StartNow == 1000000000

\* ------------------------------------------------------ program constants
NListing == 4
limit == 6
MAX_AGE_MS == 60 * 60 * 1000

Reqs == 1..MaxReq
Urls == 1..(limit + ExtraShop)

Null == <<>>
Some(v) == <<v>>

\* ------------------------------------------------------------- variables
VARIABLES
    OPENAI_API_KEY, \* TRUE when the environment configures the key
    CACHE,          \* [products, lastScrape]
    now,            \* Date.now()
    shop,           \* number of products the site lists (environment)
    quota,          \* number of requests that may still arrive (environment)
    overlap,        \* TRUE when a request may arrive while another is handled
    turn,           \* events delivered before a drain of the queue (environment)
    queue,          \* the microtask queue, oldest job first
    draining,       \* TRUE while the event loop drains the microtask queue
    remaining,      \* callbacks of the batch Promise.all still waits for
    pc,             \* position of each request's handler
    req,            \* the request being handled
    found,          \* ensureCatalog's local Map, in insertion order
    li,             \* index of the listing fetch in flight
    bi,             \* the batch loop's i
    inflight,       \* detail fetches whose network operation is in flight
    seen,           \* CACHE.products as read by the handler after the await
    seenAt,         \* history: CACHE.lastScrape when the handler read CACHE.products
    matches,        \* the handler's matches
    baseline,       \* the handler's baseline
    resp,           \* the response written
    lfetch,         \* history: listing fetches issued by the request
    lok,            \* history: some listing fetch of the request succeeded
    disc,           \* history: URLs on the listing pages the request fetched
    dfetch,         \* history: detail fetches issued per URL
    dstat,          \* history: how the detail fetch of each URL settled
    listed,         \* history: found when the listing phase ended
    installed,      \* history: the list and timestamp the request's cycle installed
    snapshots,      \* history: the lists installed by cycles with no fetch left in flight
    rewrote,        \* history: how the request's llmRewrite call settled
    pin, pout       \* input and output of the function under test

vars == <<OPENAI_API_KEY, CACHE, now, shop, quota, overlap, turn, queue, draining,
          remaining, pc, req, found, li, bi,
          inflight, seen, seenAt, matches, baseline, resp, lfetch, lok, disc, dfetch,
          dstat, listed, installed, snapshots, rewrote, pin, pout>>

\* --------------------------------------------------------------- strings
Digit(d) == CASE d = 0 -> "0" [] d = 1 -> "1" [] d = 2 -> "2" [] d = 3 -> "3"
              [] d = 4 -> "4" [] d = 5 -> "5" [] d = 6 -> "6" [] d = 7 -> "7"
              [] d = 8 -> "8" [] d = 9 -> "9"

RECURSIVE Digits(_)
Digits(n) == IF n < 10 THEN <<Digit(n)>> ELSE Digits(n \div 10) \o <<Digit(n % 10)>>

\* Number.prototype.toFixed(2) of a number of cents.
toFixed2(c) ==
    LET a == IF c < 0 THEN -c ELSE c
    IN  (IF c < 0 THEN <<"-">> ELSE <<>>) \o Digits(a \div 100) \o <<".">>
            \o <<Digit((a % 100) \div 10), Digit(a % 10)>>

\* String.prototype.replace(from, to) for one-character patterns: the first
\* occurrence only.
RECURSIVE ReplaceFirst(_, _, _)
ReplaceFirst(s, from, to) ==
    IF s = <<>> THEN <<>>
    ELSE IF Head(s) = from THEN to \o Tail(s)
    ELSE <<Head(s)>> \o ReplaceFirst(Tail(s), from, to)

\* Mutant: the decimal point of toFixed is kept.
fromNumberToBRLKeepsPoint(v) == <<"R", "$", " ">> \o toFixed2(v)

\* 'R$ ' + Number(v).toFixed(2).replace('.', ',')
fromNumberToBRL(v) == <<"R", "$", " ">> \o ReplaceFirst(toFixed2(v), ".", <<",">>)

\* ------------------------------------------------- price reconciliation
RECURSIVE MathMin(_)
MathMin(s) ==
    IF Len(s) = 1 THEN s[1]
    ELSE LET m == MathMin(Tail(s)) IN IF s[1] < m THEN s[1] ELSE m

\* JavaScript truthiness of a nullable number.
Truthy(n) == n # Null /\ n[1] # 0

\* Mutants of the reconciliation rule.
ResolveLowestOfAll(saleCandidates, generalCandidates) ==
    IF saleCandidates \o generalCandidates # <<>>
    THEN Some(MathMin(saleCandidates \o generalCandidates))
    ELSE Null

ResolvePrice(saleCandidates, generalCandidates) ==
    IF saleCandidates # <<>> THEN Some(MathMin(saleCandidates))
    ELSE IF generalCandidates # <<>> THEN Some(MathMin(generalCandidates))
    ELSE Null

\* ----------------------------------------------------------- price parser
IsDigit(c) == c \in {"0", "1", "2", "3", "4", "5", "6", "7", "8", "9"}
DigitVal(c) == CHOOSE d \in 0..9 : Digit(d) = c

RECURSIVE RemoveAll(_, _)
RemoveAll(s, c) ==
    IF s = <<>> THEN <<>>
    ELSE IF Head(s) = c THEN RemoveAll(Tail(s), c)
    ELSE <<Head(s)>> \o RemoveAll(Tail(s), c)

RECURSIVE TrimLeft(_)
TrimLeft(s) == IF s # <<>> /\ Head(s) = " " THEN TrimLeft(Tail(s)) ELSE s

RECURSIVE TrimRight(_)
TrimRight(s) ==
    IF s # <<>> /\ s[Len(s)] = " " THEN TrimRight(SubSeq(s, 1, Len(s) - 1)) ELSE s

Trim(s) == TrimRight(TrimLeft(s))

RECURSIVE NatOf(_)
NatOf(s) == IF s = <<>> THEN 0 ELSE 10 * NatOf(SubSeq(s, 1, Len(s) - 1)) + DigitVal(s[Len(s)])

AllDigits(s) == \A i \in 1..Len(s) : IsDigit(s[i])

AllZeros(s) == \A i \in 1..Len(s) : s[i] = "0"

\* The value of a digit of a literal in radix 16, 8 or 2; 16 for a
\* character that is no digit in any of them.
RadixVal(c) ==
    IF IsDigit(c) THEN DigitVal(c)
    ELSE IF c \in {"a", "A"} THEN 10 ELSE IF c \in {"b", "B"} THEN 11
    ELSE IF c \in {"c", "C"} THEN 12 ELSE IF c \in {"d", "D"} THEN 13
    ELSE IF c \in {"e", "E"} THEN 14 ELSE IF c \in {"f", "F"} THEN 15
    ELSE 16

RECURSIVE RadixOf(_, _)
RadixOf(s, b) ==
    IF s = <<>> THEN 0 ELSE b * RadixOf(SubSeq(s, 1, Len(s) - 1), b) + RadixVal(s[Len(s)])

\* The radix a prefix 0x, 0o or 0b announces; 0 for any other character.
Radix(c) ==
    IF c \in {"x", "X"} THEN 16 ELSE IF c \in {"o", "O"} THEN 8
    ELSE IF c \in {"b", "B"} THEN 2 ELSE 0

\* A hexadecimal, octal or binary integer literal t, of at least two
\* characters; Null stands for NaN.
NonDecimal(t) ==
    IF Len(t) > 2 /\ \A i \in 3..Len(t) : RadixVal(t[i]) < Radix(t[2])
    THEN Some(100 * RadixOf(SubSeq(t, 3, Len(t)), Radix(t[2])))
    ELSE Null

\* The number of cents of the decimal digits ip before and fp after the
\* point.  The numbers of the model are whole numbers of cents: fraction
\* digits past the second add nothing when they are zeros, and with any
\* other digit there the value is a number the model has no value for
\* (the CHOOSE is then undefined).
Magnitude(ip, fp) ==
    CHOOSE c \in {100 * NatOf(ip) + NatOf(SubSeq(fp \o <<"0", "0">>, 1, 2))} :
        AllZeros(SubSeq(fp, 3, Len(fp)))

\* ip.fp times ten to the e, in cents: k digits of ip pass to the right of
\* the point when e is negative, e digits of fp to its left otherwise.
Scaled(ip, fp, e) ==
    IF e >= 0
    THEN Magnitude(ip \o SubSeq(fp \o [i \in 1..e |-> "0"], 1, e), SubSeq(fp, e + 1, Len(fp)))
    ELSE LET k == IF -e > Len(ip) THEN Len(ip) ELSE -e
         IN  Magnitude(SubSeq(ip, 1, Len(ip) - k),
                       [i \in 1..(-e - k) |-> "0"] \o SubSeq(ip, Len(ip) - k + 1, Len(ip)) \o fp)

\* The value of an exponent part, after its e: digits with an optional
\* sign; Null when it is malformed.
ExponentOf(x) ==
    IF x = <<>> THEN Null
    ELSE IF Head(x) \in {"+", "-"}
    THEN IF Len(x) > 1 /\ AllDigits(Tail(x))
         THEN Some(IF Head(x) = "-" THEN -NatOf(Tail(x)) ELSE NatOf(Tail(x)))
         ELSE Null
    ELSE IF AllDigits(x) THEN Some(NatOf(x)) ELSE Null

\* Digits with at most one point (at the positions dots) and at least one
\* digit, followed by the exponent part of value e (Null: malformed).
Mantissa(m, dots, e) ==
    IF e = Null \/ Cardinality(dots) > 1 THEN Null
    ELSE IF dots = {}
    THEN IF m # <<>> /\ AllDigits(m) THEN Some(Scaled(m, <<>>, e[1])) ELSE Null
    ELSE IF /\ Len(m) > 1
            /\ \A i \in 1..Len(m) : i \in dots \/ IsDigit(m[i])
    THEN Some(Scaled(SubSeq(m, 1, (CHOOSE i \in dots : TRUE) - 1),
                     SubSeq(m, (CHOOSE i \in dots : TRUE) + 1, Len(m)), e[1]))
    ELSE Null

Points(s) == {i \in 1..Len(s) : s[i] = "."}

T_Infinity == <<"I", "n", "f", "i", "n", "i", "t", "y">>

\* An unsigned decimal literal u whose letters e or E are at the
\* positions es: Infinity, or a mantissa and, after the first e, an
\* exponent part.  Null stands for a value that is not finite.
Unsigned(u, es) ==
    IF u = T_Infinity THEN Null
    ELSE IF es = {} THEN Mantissa(u, Points(u), Some(0))
    ELSE LET k == CHOOSE i \in es : \A j \in es : i <= j
         IN  Mantissa(SubSeq(u, 1, k - 1), Points(SubSeq(u, 1, k - 1)),
                      ExponentOf(SubSeq(u, k + 1, Len(u))))

Exponents(s) == {i \in 1..Len(s) : s[i] \in {"e", "E"}}

Negated(n) == IF n = Null THEN Null ELSE Some(-n[1])

\* A literal t with no white space around it: a sign is allowed before a
\* decimal literal only.
Signed(t) ==
    IF t = <<>> THEN Some(0)
    ELSE IF Head(t) = "-" THEN Negated(Unsigned(Tail(t), Exponents(Tail(t))))
    ELSE IF Head(t) = "+" THEN Unsigned(Tail(t), Exponents(Tail(t)))
    ELSE IF Len(t) > 1 /\ t[1] = "0" /\ Radix(t[2]) # 0 THEN NonDecimal(t)
    ELSE Unsigned(t, Exponents(t))

\* Number(text) when it is finite, in cents; Null stands for NaN, Infinity
\* and -Infinity, which every caller discards with Number.isFinite.  Number
\* trims white space and reads the empty text as 0; -0 is 0.  The values
\* are whole numbers of cents below 2^31.
NumberOf(text) == Signed(Trim(text))

toNumberBRL(s) ==
    IF s = <<>> THEN Null
    ELSE NumberOf(ReplaceFirst(RemoveAll(s, "."), ",", <<".">>))

\* ------------------------------------------------------ linked-data walk
\* A JSON-LD object is a record: its price, lowPrice and highPrice (Null
\* when the field is absent or null, else the text String(...) gives for
\* its value), its offers (a list of objects) and its other properties
\* that hold an object (kids).
\* Number(String(v).replace(',', '.')) when finite, in cents, as the list
\* of the values pushed: none or one.
OfferNumber(field) == NumberOf(ReplaceFirst(field[1], ",", <<".">>))

\* Mutant: price is tagged like lowPrice.
OwnPricesPriceAsSale(obj) ==
    LET fin(f) == IF f # Null THEN OfferNumber(f) ELSE <<>>
    IN  [sale |-> fin(obj.price) \o fin(obj.lowPrice),
         general |-> fin(obj.highPrice)]

\* nums, and the loop that pushes every finite e.v to saleOut or generalOut.
OwnPrices(obj) ==
    LET fin(f) == IF f # Null THEN OfferNumber(f) ELSE <<>>
    IN  [sale |-> fin(obj.lowPrice),
         general |-> fin(obj.price) \o fin(obj.highPrice)]

\* What a call appends to saleOut and to generalOut: the offers first, then
\* the object's own fields, then every property that holds an object (the
\* offers array once more, then the others).
\* The calls are kept as a list of pending items, as on the call stack:
\* [obj, own |-> FALSE] is a call collectOfferPrices(obj) still to make,
\* [obj, own |-> TRUE] is the part of a call that pushes the object's own
\* fields.
Calls(objs) == [i \in 1..Len(objs) |-> [obj |-> objs[i], own |-> FALSE]]

Visit(obj) ==
    Calls(obj.offers) \o <<[obj |-> obj, own |-> TRUE]>> \o Calls(obj.offers) \o Calls(obj.kids)

\* saleOut and generalOut after the pushes of a, then those of b.
Pushed(a, b) == [sale |-> a.sale \o b.sale, general |-> a.general \o b.general]

RECURSIVE Walk(_)
Walk(items) ==
    IF items = <<>> THEN [sale |-> <<>>, general |-> <<>>]
    ELSE IF Head(items).own
    THEN Pushed(OwnPrices(Head(items).obj), Walk(Tail(items)))
    ELSE Walk(Visit(Head(items).obj) \o Tail(items))

\* for (const n of nodes) collectOfferPrices(n, saleCandidates, generalCandidates)
CollectAll(objs) == Walk(Calls(objs))

collectOfferPrices(obj) == Walk(Calls(<<obj>>))

\* The candidates of a page: those of its JSON-LD blocks (page.ld) and
\* those of its other sources (page.sale, page.general).
Candidates(page) ==
    Pushed([sale |-> page.sale, general |-> page.general], CollectAll(page.ld))

\* let priceNum = ...; const price = priceNum ? fromNumberToBRL(priceNum) : null
Resolved(page, url, priceNum) ==
    [name |-> page.name,
     price |-> IF Truthy(priceNum) THEN Some(fromNumberToBRL(priceNum[1])) ELSE Null,
     priceNum |-> priceNum, url |-> url]

PriceOf(candidates) == ResolvePrice(candidates.sale, candidates.general)

extractFromProductPage(page, url) == Resolved(page, url, PriceOf(Candidates(page)))

\* p.price.replace('R$', '').trim()
RECURSIVE StripCurrency(_)
StripCurrency(s) ==
    IF Len(s) < 2 THEN s
    ELSE IF s[1] = "R" /\ s[2] = "$" THEN SubSeq(s, 3, Len(s))
    ELSE <<Head(s)>> \o StripCurrency(Tail(s))

\* ------------------------------------------------------------ normalize
UpperCase == <<"A", "B", "C", "D", "E", "F", "G", "H", "I", "J", "K", "L", "M",
               "N", "O", "P", "Q", "R", "S", "T", "U", "V", "W", "X", "Y", "Z">>
LowerCase == <<"a", "b", "c", "d", "e", "f", "g", "h", "i", "j", "k", "l", "m",
               "n", "o", "p", "q", "r", "s", "t", "u", "v", "w", "x", "y", "z">>

\* The accented letters of the model's alphabet: "e^" is e with circumflex,
\* "c," is c with cedilla, "a~" is a with tilde (one character each).
Accented == <<"e^", "c,", "a~">>
Unaccented == <<"e", "c", "a">>

IndexIn(c, alphabet) ==
    IF \E i \in 1..Len(alphabet) : alphabet[i] = c
    THEN CHOOSE i \in 1..Len(alphabet) : alphabet[i] = c
    ELSE 0

toLowerCase(s) ==
    [i \in 1..Len(s) |->
        IF IndexIn(s[i], UpperCase) > 0 THEN LowerCase[IndexIn(s[i], UpperCase)] ELSE s[i]]

\* normalize('NFD') followed by the removal of the combining marks.
StripDiacritics(s) ==
    [i \in 1..Len(s) |->
        IF IndexIn(s[i], Accented) > 0 THEN Unaccented[IndexIn(s[i], Accented)] ELSE s[i]]

\* replace(/[^a-z0-9\s]/g, ' ')
OnlyAlnum(s) ==
    [i \in 1..Len(s) |->
        IF IndexIn(s[i], LowerCase) > 0 \/ IsDigit(s[i]) \/ s[i] = " " THEN s[i] ELSE " "]

\* replace(/\s+/g, ' ')
RECURSIVE CollapseSpaces(_)
CollapseSpaces(s) ==
    IF Len(s) < 2 THEN s
    ELSE IF s[1] = " " /\ s[2] = " " THEN CollapseSpaces(Tail(s))
    ELSE <<Head(s)>> \o CollapseSpaces(Tail(s))

normalize(s) == Trim(CollapseSpaces(OnlyAlnum(StripDiacritics(toLowerCase(s)))))

\* String.prototype.includes
Includes(s, t) == \E i \in 0..(Len(s) - Len(t)) : SubSeq(s, i + 1, i + Len(t)) = t

\* String.prototype.split(' ')
RECURSIVE Split(_)
Split(s) ==
    LET sp == {i \in 1..Len(s) : s[i] = " "}
    IN  IF sp = {} THEN <<s>>
        ELSE LET k == CHOOSE i \in sp : \A j \in sp : i <= j
             IN  <<SubSeq(s, 1, k - 1)>> \o Split(SubSeq(s, k + 1, Len(s)))

\* ---------------------------------------------------------- vocabulary
W_o == <<"o">>
W_quanto == <<"q", "u", "a", "n", "t", "o">>
W_preco == <<"p", "r", "e", "c", "o">>
W_precoC == <<"p", "r", "e", "c,", "o">>
W_custa == <<"c", "u", "s", "t", "a">>
W_valor == <<"v", "a", "l", "o", "r">>
W_mais == <<"m", "a", "i", "s">>
W_sapatenis == <<"s", "a", "p", "a", "t", "e", "n", "i", "s">>
W_mocatenis == <<"m", "o", "c", "a", "t", "e", "n", "i", "s">>
W_mocassim == <<"m", "o", "c", "a", "s", "s", "i", "m">>
W_bota == <<"b", "o", "t", "a">>
W_sandalia == <<"s", "a", "n", "d", "a", "l", "i", "a">>
W_tenis == <<"t", "e", "n", "i", "s">>
W_camiseta == <<"c", "a", "m", "i", "s", "e", "t", "a">>
W_camisa == <<"c", "a", "m", "i", "s", "a">>
W_polo == <<"p", "o", "l", "o">>
W_regata == <<"r", "e", "g", "a", "t", "a">>
W_bermuda == <<"b", "e", "r", "m", "u", "d", "a">>
W_calca == <<"c", "a", "l", "c", "a">>
W_sapatennis == <<"s", "a", "p", "a", "t", "e", "n", "n", "i", "s">>
W_mocatennis == <<"m", "o", "c", "a", "t", "e", "n", "n", "i", "s">>
W_calcaC == <<"c", "a", "l", "c,", "a">>
W_barat == <<"b", "a", "r", "a", "t">>
W_minim == <<"m", "i", "n", "i", "m">>
W_menor == <<"m", "e", "n", "o", "r">>
W_pre == <<"p", "r", "e">>
W_cara == <<"c", "a", "r", "a">>
W_caro == <<"c", "a", "r", "o">>
W_maior == <<"m", "a", "i", "o", "r">>
W_caras == <<"c", "a", "r", "a", "s">>

\* ------------------------------------------------------------- matching
PT_STOP == {W_o, <<"a">>, <<"o", "s">>, <<"a", "s">>, <<"u", "m">>, <<"u", "m", "a">>,
            <<"d", "e">>, <<"d", "a">>, <<"d", "o">>, <<"d", "a", "s">>, <<"d", "o", "s">>,
            <<"q", "u", "e">>, <<"q", "u", "a", "l">>, <<"q", "u", "a", "i", "s">>,
            W_quanto, <<"q", "u", "a", "n", "t", "a">>, W_preco, W_precoC, W_custa,
            W_valor, <<"t", "e", "m">>, <<"e">>, <<"o", "u">>, W_mais}

HARD_FILTERS == <<W_sapatenis, W_mocatenis, W_mocassim, W_bota, W_sandalia, W_tenis,
                  W_camiseta, W_camisa, W_polo, W_regata, W_bermuda, W_calca>>

\* SYN.get(t) || t
SYN(t) ==
    IF t = W_sapatenis THEN W_sapatennis
    ELSE IF t = W_mocatenis THEN W_mocatennis
    ELSE IF t = W_calca THEN W_calcaC
    ELSE t

\* Mutant: the last keyword of the list that occurs is selected.
HardFilterLast(qn) ==
    LET hits == {i \in 1..Len(HARD_FILTERS) : Includes(qn, HARD_FILTERS[i])}
    IN  IF hits = {} THEN Null
        ELSE Some(HARD_FILTERS[CHOOSE i \in hits : \A j \in hits : i >= j])

\* HARD_FILTERS.find(h => qn.includes(h)): Null when no keyword occurs.
HardFilter(qn) ==
    LET hits == {i \in 1..Len(HARD_FILTERS) : Includes(qn, HARD_FILTERS[i])}
    IN  IF hits = {} THEN Null
        ELSE Some(HARD_FILTERS[CHOOSE i \in hits : \A j \in hits : i <= j])

Tokens(qn) == SelectSeq(Split(qn), LAMBDA t : t # <<>> /\ t \notin PT_STOP)

RECURSIVE Score(_, _)
Score(normName, toks) ==
    IF toks = <<>> THEN 0
    ELSE LET t == Head(toks)
             t2 == SYN(t)
         IN  (IF Includes(normName, t) THEN 2 ELSE 0)
             + (IF t2 # t /\ Includes(normName, t2) THEN 1 ELSE 0)
             + Score(normName, Tail(toks))

\* Mutant: the comparator ignores the price.
CompareScoreOnly(a, b) == b.score - a.score

\* The comparator of ranked.sort: negative when a goes before b.
Compare(a, b) ==
    IF b.score - a.score # 0 THEN b.score - a.score ELSE a.priceValue - b.priceValue

\* Array.prototype.sort is stable: an element goes after every element that
\* does not compare greater than it.
RECURSIVE InsertSorted(_, _)
InsertSorted(sorted, x) ==
    IF sorted = <<>> THEN <<x>>
    ELSE IF Compare(x, Head(sorted)) < 0 THEN <<x>> \o sorted
    ELSE <<Head(sorted)>> \o InsertSorted(Tail(sorted), x)

RECURSIVE SortRanked(_)
SortRanked(s) ==
    IF s = <<>> THEN <<>>
    ELSE InsertSorted(SortRanked(SubSeq(s, 1, Len(s) - 1)), s[Len(s)])

Slice(s, from, to) == SubSeq(s, from + 1, IF to < Len(s) THEN to ELSE Len(s))

findMatches(question, catalog) ==
    LET qn == normalize(question)
        toks == Tokens(qn)
        hard == HardFilter(qn)
        scored == [i \in 1..Len(catalog) |->
                     [p |-> catalog[i], score |-> Score(catalog[i].normName, toks),
                      priceValue |-> catalog[i].priceValue]]
        positive == SelectSeq(scored, LAMBDA e : e.score > 0)
        ranked == IF hard = Null THEN positive
                  ELSE SelectSeq(positive, LAMBDA e :
                           Includes(e.p.normName, hard[1])
                           \/ Includes(e.p.normName, SYN(hard[1])))
        top == Slice(SortRanked(ranked), 0, 8)
    IN  [i \in 1..Len(top) |->
            [name |-> top[i].p.name, url |-> top[i].p.url, price |-> top[i].p.price,
             priceValue |-> top[i].p.priceValue]]

\* --------------------------------------------------------------- answer
\* A regular expression is a sequence of items: a set of characters, or
\* white space repeated zero or more times.
Lit(w) == [i \in 1..Len(w) |-> [ws |-> FALSE, cs |-> {w[i]}]]
Ws == <<[ws |-> TRUE, cs |-> {}]>>
OneOf(S) == <<[ws |-> FALSE, cs |-> S]>>

RECURSIVE MatchHere(_, _)
MatchHere(pat, s) ==
    IF pat = <<>> THEN TRUE
    ELSE IF pat[1].ws
    THEN MatchHere(Tail(pat), s) \/ (s # <<>> /\ s[1] = " " /\ MatchHere(pat, Tail(s)))
    ELSE s # <<>> /\ s[1] \in pat[1].cs /\ MatchHere(Tail(pat), Tail(s))

\* RegExp.prototype.test with the i flag.
Test(alternatives, text) ==
    LET s == toLowerCase(text)
    IN  \E pat \in alternatives : \E i \in 0..Len(s) : MatchHere(pat, SubSeq(s, i + 1, Len(s)))

AsksPriceRe == {Lit(W_quanto), Lit(W_preco), Lit(W_precoC), Lit(W_custa), Lit(W_valor)}
CheapestRe == {Lit(W_mais) \o Ws \o Lit(W_barat), Lit(W_minim),
               Lit(W_menor) \o Ws \o Lit(W_pre) \o OneOf({"c", "c,"}) \o Lit(W_o)}
MostExpRe == {Lit(W_mais) \o Ws \o Lit(W_cara), Lit(W_mais) \o Ws \o Lit(W_caro),
              Lit(W_maior) \o Ws \o Lit(W_pre) \o OneOf({"c", "c,"}) \o Lit(W_o),
              Lit(W_mais) \o Ws \o Lit(W_caras)}

\* Mutants of the two reductions: on equal prices the accumulator is kept;
\* the first match is kept whatever the prices.
RECURSIVE ReduceMaxKeepsFirst(_, _)
ReduceMaxKeepsFirst(a, rest) ==
    IF rest = <<>> THEN a
    ELSE ReduceMaxKeepsFirst(IF a.priceValue >= Head(rest).priceValue THEN a ELSE Head(rest),
                             Tail(rest))

ReduceMinKeepsHead(a, rest) == a

\* matches.reduce((a, b) => (a.priceValue > b.priceValue ? a : b))
RECURSIVE ReduceMax(_, _)
ReduceMax(a, rest) ==
    IF rest = <<>> THEN a
    ELSE ReduceMax(IF a.priceValue > Head(rest).priceValue THEN a ELSE Head(rest), Tail(rest))

\* matches.reduce((a, b) => (a.priceValue < b.priceValue ? a : b))
RECURSIVE ReduceMin(_, _)
ReduceMin(a, rest) ==
    IF rest = <<>> THEN a
    ELSE ReduceMin(IF a.priceValue < Head(rest).priceValue THEN a ELSE Head(rest), Tail(rest))

Line(m) == [name |-> m.name, price |-> m.price, url |-> m.url]

\* The answer text: the fixed not-found sentence, the fixed heading followed
\* by the picked product's line and URL, or the heading followed by up to
\* three product lines.
makeDeterministicAnswer(question, ms) ==
    IF ms = <<>> THEN [kind |-> "notfound", lines |-> <<>>]
    ELSE LET asksPrice == Test(AsksPriceRe, question)
             wantsCheapest == Test(CheapestRe, question) \/ asksPrice
             wantsMostExp == Test(MostExpRe, question)
             pick == IF wantsMostExp THEN ReduceMax(Head(ms), Tail(ms))
                     ELSE IF wantsCheapest THEN ReduceMin(Head(ms), Tail(ms))
                     ELSE ms[1]
         IN  IF wantsMostExp \/ wantsCheapest \/ asksPrice
             THEN [kind |-> "pick", lines |-> <<Line(pick)>>]
             ELSE [kind |-> "list",
                   lines |-> [i \in 1..Len(Slice(ms, 0, 3)) |-> Line(ms[i])]]

\* ------------------------------------------------------------- the site
\* What the pages of the site hold.  The site lists products 1..n over its
\* first three listing pages (product u on page ((u - 1) % 3) + 1), the
\* second page showing product 1 once more under a shorter name; the
\* fourth listing page is empty.
N_Tenis == <<"T", "e^", "n", "i", "s">>
N_Bota == <<"B", "o", "t", "a">>
N_TenisPro == <<"T", "e", "n", "i", "s", " ", "P", "r", "o">>

ListingName(u) == IF u = 2 THEN N_Bota ELSE N_Tenis \o <<" ">> \o Digits(u)

ListingEntry(u, name) == [name |-> name, url |-> u]

ListingPage(i, n) ==
    LET on == {u \in 1..n : ((u - 1) % 3) + 1 = i}
        own == [k \in 1..Cardinality(on) |->
                   ListingEntry(CHOOSE u \in on : Cardinality({v \in on : v < u}) = k - 1,
                                ListingName(CHOOSE u \in on : Cardinality({v \in on : v < u}) = k - 1))]
    IN  IF i = 2 /\ n >= 1 THEN own \o <<ListingEntry(1, N_Tenis)>> ELSE own

\* JSON-LD objects under test: price, lowPrice and highPrice absent or
\* holding a number or a text, and at most one nested object, under offers
\* or under another property.
T_80c5 == <<"8", "0", ",", "5">>
T_x == <<"x">>
T_7e1 == <<"7", "e", "1">>
T_m5 == <<"-", "5">>
T_99d900 == <<"9", "9", ".", "9", "0", "0">>

LdObject(price, lowPrice, highPrice, offers, kids) ==
    [price |-> price, lowPrice |-> lowPrice, highPrice |-> highPrice,
     offers |-> offers, kids |-> kids]

LdFields ==
    [price : {Null, Some(T_80c5), Some(T_x)},
     lowPrice : {Null, Some(T_7e1), Some(T_m5)},
     highPrice : {Null, Some(T_99d900)}]

RECURSIVE LdObjects(_)
LdObjects(depth) ==
    LET nested == IF depth = 0 THEN {} ELSE LdObjects(depth - 1)
    IN  {LdObject(f.price, f.lowPrice, f.highPrice, <<>>, <<>>) : f \in LdFields}
        \cup {LdObject(f.price, f.lowPrice, f.highPrice, <<c>>, <<>>) :
                  f \in LdFields, c \in nested}
        \cup {LdObject(f.price, f.lowPrice, f.highPrice, <<>>, <<c>>) :
                  f \in LdFields, c \in nested}

\* The product pages a detail fetch may return: the name found on the page
\* ("" when none), the candidates collected (in cents) and the JSON-LD
\* blocks.  One page of product 3 has an offer with lowPrice -5.
DetailPages(u) ==
    IF u = 1
    THEN {[name |-> N_TenisPro, sale |-> <<8000>>, general |-> <<12000>>, ld |-> <<>>],
          [name |-> N_TenisPro, sale |-> <<>>, general |-> <<>>, ld |-> <<>>]}
    ELSE IF u = 2
    THEN {[name |-> <<>>, sale |-> <<0>>, general |-> <<9900>>, ld |-> <<>>]}
    ELSE IF u = 3
    THEN {[name |-> <<>>, sale |-> <<>>, general |-> <<12000, 10003>>, ld |-> <<>>],
          [name |-> <<>>, sale |-> <<>>, general |-> <<12000>>,
           ld |-> <<LdObject(Null, Null, Null,
                             <<LdObject(Some(T_99d900), Some(T_m5), Null, <<>>, <<>>)>>, <<>>)>>]}
    ELSE {[name |-> <<>>, sale |-> <<>>, general |-> <<12000, 10000 + u>>, ld |-> <<>>]}

\* Product pages under test: with and without a name, and every list of
\* at most MaxCandidates candidates of each kind (cents; 0 is a variant
\* price of 0 in the product JSON).
CandidatePrices == {0, 8000, 9900}
CandidateLists == UNION {[1..n -> CandidatePrices] : n \in 0..MaxCandidates}
TestPages ==
    [name : {<<>>, N_TenisPro}, sale : CandidateLists, general : CandidateLists, ld : {<<>>}]

Fail == [ok |-> FALSE, page |-> <<>>]
Ok(page) == [ok |-> TRUE, page |-> page]

\* fetchText(url): the text of the page, or an exception (network error or
\* a status that is not OK).
DetailOutcomes(u) == {Fail} \cup {Ok(p) : p \in DetailPages(u)}

\* The requests a client may send.
Q_Tenis == <<"Q", "u", "a", "n", "t", "o", " ", "c", "u", "s", "t", "a", " ", "o", " ",
             "t", "e^", "n", "i", "s", "?">>
Q_Blank == <<" ">>

Request(method, refresh, question) ==
    [method |-> method, refresh |-> refresh, question |-> question]

Requests ==
    {Request("GET", FALSE, <<>>), Request("GET", TRUE, <<>>),
     Request("POST", FALSE, Q_Tenis),
     Request("POST", FALSE, Q_Blank), Request("OPTIONS", FALSE, <<>>),
     Request("PUT", FALSE, <<>>)}

\* The products of the catalogs under test, by URL: name and priceValue
\* in cents.  Beyond the tenth they are named "Te^nis <n>".
P_SapatenisVerde == <<"S", "a", "p", "a", "t", "e^", "n", "i", "s", " ", "V", "e", "r", "d", "e">>
P_SapatennisAzul == <<"S", "a", "p", "a", "t", "e", "n", "n", "i", "s", " ", "A", "z", "u", "l">>
P_TenisBranco == <<"T", "e^", "n", "i", "s", " ", "B", "r", "a", "n", "c", "o">>
P_SapatenisPreto == <<"S", "a", "p", "a", "t", "e^", "n", "i", "s", " ", "P", "r", "e", "t", "o">>
P_BotaVerde == <<"B", "o", "t", "a", " ", "V", "e", "r", "d", "e">>
P_TenisVerde == <<"T", "e^", "n", "i", "s", " ", "V", "e", "r", "d", "e">>
P_SapatenisMarrom == <<"S", "a", "p", "a", "t", "e^", "n", "i", "s", " ", "M", "a", "r", "r", "o",
      "m">>
P_TenisAzul == <<"T", "e^", "n", "i", "s", " ", "A", "z", "u", "l">>
P_MocatenisCinza == <<"M", "o", "c", "a", "t", "e^", "n", "i", "s", " ", "C", "i", "n", "z", "a">>
P_TenisPreto == <<"T", "e^", "n", "i", "s", " ", "P", "r", "e", "t", "o">>

PoolName(i) ==
    CASE i = 1 -> P_SapatenisVerde [] i = 2 -> P_SapatennisAzul [] i = 3 -> P_TenisBranco
      [] i = 4 -> P_SapatenisPreto [] i = 5 -> P_BotaVerde [] i = 6 -> P_TenisVerde
      [] i = 7 -> P_SapatenisMarrom [] i = 8 -> P_TenisAzul [] i = 9 -> P_MocatenisCinza
      [] i = 10 -> P_TenisPreto [] OTHER -> N_Tenis \o <<" ">> \o Digits(i)

PoolPrice(i) ==
    CASE i = 1 -> 8000 [] i = 2 -> 12000 [] i = 3 -> 9900 [] i = 4 -> 12000
      [] i = 5 -> 15000 [] i = 6 -> 8000 [] i = 7 -> 7000 [] i = 8 -> 7000
      [] i = 9 -> 9900 [] i = 10 -> 12000 [] OTHER -> 5000 + 100 * i

\* A product as ensureCatalog installs it.
PoolProduct(i) ==
    [url |-> i, name |-> PoolName(i), price |-> fromNumberToBRL(PoolPrice(i)),
     priceValue |-> PoolPrice(i), normName |-> normalize(PoolName(i))]

\* The catalog of the products of S, in the order of their URLs.
RECURSIVE CatalogOf(_)
CatalogOf(S) ==
    IF S = {} THEN <<>>
    ELSE LET last == CHOOSE i \in S : \A j \in S : j <= i
         IN  Append(CatalogOf(S \ {last}), PoolProduct(last))

TestCatalogs == {CatalogOf(S) : S \in SUBSET (1..MaxPool)}

\* The questions under test.
Q_SapatenisVerde == <<"Q", "u", "a", "n", "t", "o", " ", "c", "u", "s", "t", "a", " ", "o", " ",
      "s", "a", "p", "a", "t", "e^", "n", "i", "s", " ", "v", "e", "r", "d",
      "e", "?">>
Q_MaisCaro == <<"Q", "u", "a", "l", " ", "o", " ", "s", "a", "p", "a", "t", "e^", "n", "i",
      "s", " ", "m", "a", "i", "s", " ", "c", "a", "r", "o", "?">>
Q_Lista == <<"s", "a", "p", "a", "t", "e", "n", "i", "s", " ", "v", "e", "r", "d", "e">>
Q_Verde == <<"V", "e", "r", "d", "e">>
Q_MaisBarato == <<"s", "a", "p", "a", "t", "e^", "n", "i", "s", " ", "m", "a", "i", "s", " ",
      "b", "a", "r", "a", "t", "o">>

TestQuestions == {Q_Tenis, Q_SapatenisVerde, Q_MaisCaro, Q_Lista, Q_Verde, Q_MaisBarato}

\* llmRewrite: an exception (network error or status not OK), a reply with
\* no content, or a reply with a text.
RewriteOutcomes == {"throw", "blank", "text"}

\* ------------------------------------------------------------ responses
NoResponse ==
    [status |-> 0, kind |-> "none", count |-> 0, answer |-> [kind |-> "none", lines |-> <<>>],
     matches |-> <<>>, updatedAt |-> 0]

json(kind, status) == [NoResponse EXCEPT !.status = status, !.kind = kind]

\* -------------------------------------------------------- ensureCatalog
\* Mutant: the map of a cycle starts from the products of the cache.
MapOfCache ==
    [i \in 1..Len(CACHE.products) |->
        [url |-> CACHE.products[i].url, name |-> CACHE.products[i].name,
         price |-> Some(CACHE.products[i].price),
         priceValue |-> Some(CACHE.products[i].priceValue)]]

\* const found = new Map()
NewMap == <<>>

\* Map.prototype.set: a new key goes last, a known key keeps its place.
FoundSet(f, e) ==
    IF \E i \in 1..Len(f) : f[i].url = e.url
    THEN [i \in 1..Len(f) |-> IF f[i].url = e.url THEN e ELSE f[i]]
    ELSE Append(f, e)

RECURSIVE FoundSetAll(_, _)
FoundSetAll(f, page) ==
    IF page = <<>> THEN f
    ELSE FoundSetAll(FoundSet(f, [url |-> Head(page).url, name |-> Head(page).name,
                                  price |-> Null, priceValue |-> Null]),
                     Tail(page))

UrlsOf(f) == [i \in 1..Len(f) |-> f[i].url]

\* Mutant: the callback assigns the three fields whatever the page gave.
ApplyDetailOverwritesAll(f, u, det) ==
    [i \in 1..Len(f) |->
        IF f[i].url # u THEN f[i]
        ELSE [url |-> f[i].url, name |-> det.name, price |-> det.price,
              priceValue |-> det.priceNum]]

\* The callback of the batch after a successful fetch: base is found.get(u).
ApplyDetail(f, u, det) ==
    [i \in 1..Len(f) |->
        IF f[i].url # u THEN f[i]
        ELSE [url |-> f[i].url,
              name |-> IF det.name # <<>> THEN det.name ELSE f[i].name,
              price |-> IF det.price # Null THEN det.price ELSE f[i].price,
              priceValue |-> IF det.priceNum # Null THEN det.priceNum ELSE f[i].priceValue]]

\* Mutant: the retention filter of the earlier revision (name and price).
RetainedByDisplayPrice(f) ==
    LET kept == SelectSeq(f, LAMBDA p : p.name # <<>> /\ p.price # Null)
    IN  [i \in 1..Len(kept) |->
            [url |-> kept[i].url, name |-> kept[i].name, price |-> kept[i].price[1],
             priceValue |-> kept[i].priceValue[1], normName |-> normalize(kept[i].name)]]

\* The list installed at the end of the cycle.  The second operand of
\* p.priceValue ?? ... is evaluated only for a null priceValue, which the
\* filter excludes.
Retained(f) ==
    LET kept == SelectSeq(f, LAMBDA p : p.name # <<>> /\ p.priceValue # Null)
    IN  [i \in 1..Len(kept) |->
            [url |-> kept[i].url,
             name |-> kept[i].name,
             price |-> IF kept[i].price # Null THEN kept[i].price[1]
                       ELSE fromNumberToBRL(kept[i].priceValue[1]),
             priceValue |-> IF kept[i].priceValue # Null THEN kept[i].priceValue[1]
                            ELSE toNumberBRL(Trim(StripCurrency(kept[i].price[1])))[1],
             normName |-> normalize(kept[i].name)]]

\* Mutants of the freshness test.
NeedsRefreshIgnoringForce(force) ==
    LET stale == now - CACHE.lastScrape > MAX_AGE_MS
    IN  ~(Len(CACHE.products) # 0 /\ ~stale)

NeedsRefreshAtWindowEnd(force) ==
    LET stale == now - CACHE.lastScrape >= MAX_AGE_MS
    IN  ~(~force /\ Len(CACHE.products) # 0 /\ ~stale)

\* The negation of the early return of ensureCatalog.
NeedsRefresh(force) ==
    LET stale == now - CACHE.lastScrape > MAX_AGE_MS
    IN  ~(~force /\ Len(CACHE.products) # 0 /\ ~stale)

\* Mutants of the batch: one URL too many, and a wait for the first fetch only.
BatchOverlapping(urls, i) == Slice(urls, i, i + limit + 1)
BatchSettledOnFirst(rest) == TRUE

\* urls.slice(i, i + limit)
Batch(urls, i) == Slice(urls, i, i + limit)

\* await Promise.all(...): every callback of the batch has finished.
BatchSettled(rest) == rest = {}

\* Mutant of the exception handler of the callback: the failure leaves
\* ensureCatalog.
DetailFailureEscapes(out) == ~out.ok

\* Mutant of the exception handler of the listing loop: the failure leaves
\* ensureCatalog.
ListingFailureEscapes(out) == ~out.ok

\* try { fetchText; extractFromListing; found.set } catch (e) { warn }:
\* no failure of a listing fetch leaves the loop body.
ListingEscapes(out) == FALSE

\* try { fetchText; ...; base.priceValue = ... } catch {}: no failure of a
\* detail fetch leaves the callback.
DetailEscapes(out) == FALSE

\* -------------------------------------------------------------- actions
SeqToSet(q) == {q[i] : i \in 1..Len(q)}
Count(q, x) == Cardinality({i \in 1..Len(q) : q[i] = x})

EnsuresCatalog(k) ==
    k.method = "GET" \/ (k.method = "POST" /\ Trim(k.question) # <<>>)

\* ensureCatalog has returned: its locals are gone (and their history with them).
Forget(r) ==
    /\ found' = [found EXCEPT ![r] = <<>>]
    /\ li' = [li EXCEPT ![r] = 0]
    /\ bi' = [bi EXCEPT ![r] = 0]
    /\ lfetch' = [lfetch EXCEPT ![r] = 0]
    /\ lok' = [lok EXCEPT ![r] = FALSE]
    /\ disc' = [disc EXCEPT ![r] = {}]
    /\ dfetch' = [dfetch EXCEPT ![r] = [u \in Urls |-> 0]]
    /\ dstat' = [dstat EXCEPT ![r] = [u \in Urls |-> "none"]]
    /\ listed' = [listed EXCEPT ![r] = <<>>]
    /\ installed' = [installed EXCEPT ![r] = Null]

\* The catch of the handler: console.error and the 500 answer.
InternalError(r) ==
    /\ pc' = [pc EXCEPT ![r] = "done"]
    /\ resp' = [resp EXCEPT ![r] = json("error", 500)]

\* The end of ensureCatalog: the list and the timestamp are assigned.
Install(r, f, rest) ==
    /\ CACHE' = [products |-> Retained(f), lastScrape |-> now]
    /\ installed' = [installed EXCEPT ![r] = Some(CACHE')]
    /\ snapshots' = IF rest = {} THEN snapshots \cup {Retained(f)} ELSE snapshots

\* ---- the event loop
\* A job of the microtask queue: the continuation kind of request r, for
\* the fetch of URL u (0: none).
Job(r, kind, u) == [r |-> r, kind |-> kind, u |-> u]

InQueue(r) == \E i \in 1..Len(queue) : queue[i].r = r

\* The event loop delivers an event (a request, the completion of a
\* network operation) and the jobs it queues, jobs, go to the end of the
\* microtask queue.  Events are delivered between two drains of the queue,
\* at most turn of them before the next drain.
Delivers(jobs) ==
    /\ ~draining
    /\ Len(queue) < turn
    /\ queue' = queue \o jobs
    /\ UNCHANGED draining

\* The job at the head of the microtask queue runs and queues the jobs
\* next; the drain goes on until the queue is empty.
Runs(next) ==
    /\ queue' = Tail(queue) \o next
    /\ draining' = (queue' # <<>>)

\* The batch loop from index i on, rest being the callbacks that have not
\* finished: the next batch is issued, or the loop ends, the catalog is
\* installed and ensureCatalog returns, which queues the continuation of
\* the handler.
Advance(r, f, i, rest) ==
    LET urls == UrlsOf(f)
        batch == Batch(urls, i)
    IN  /\ bi' = [bi EXCEPT ![r] = i]
        /\ IF i < Len(urls)
           THEN /\ pc' = [pc EXCEPT ![r] = "detail"]
                /\ inflight' = [inflight EXCEPT ![r] = @ \cup SeqToSet(batch)]
                /\ remaining' = [remaining EXCEPT ![r] = rest \cup SeqToSet(batch)]
                /\ dfetch' = [dfetch EXCEPT ![r] = [u \in Urls |-> @[u] + Count(batch, u)]]
                /\ Runs(<<>>)
                /\ UNCHANGED <<CACHE, installed, snapshots>>
           ELSE /\ pc' = [pc EXCEPT ![r] = "resume"]
                /\ remaining' = [remaining EXCEPT ![r] = rest]
                /\ Install(r, f, rest)
                /\ Runs(<<Job(r, "handler", 0)>>)
                /\ UNCHANGED <<inflight, dfetch>>

\* The handler of request k runs up to its first await or to its end: up
\* to await readJson(req) for a POST that arrives (at), then from there on.
Enter(r, k, at) ==
    LET refresh == EnsuresCatalog(k) /\ NeedsRefresh(k.method = "GET" /\ k.refresh)
        body == at = "idle" /\ k.method = "POST"
    IN  /\ pc' = [pc EXCEPT ![r] = IF body THEN "body"
                                   ELSE IF ~EnsuresCatalog(k) THEN "done"
                                   ELSE IF refresh THEN "listing" ELSE "resume"]
        /\ resp' = [resp EXCEPT ![r] =
                      IF body THEN @
                      ELSE IF k.method = "OPTIONS" THEN json("empty", 204)
                      ELSE IF k.method = "POST" /\ ~EnsuresCatalog(k) THEN json("error", 400)
                      ELSE IF ~EnsuresCatalog(k) THEN json("text", 405)
                      ELSE @]
        /\ li' = [li EXCEPT ![r] = IF ~body /\ refresh THEN 1 ELSE @]
        /\ lfetch' = [lfetch EXCEPT ![r] = IF ~body /\ refresh THEN 1 ELSE @]

\* The jobs that run queues: the continuation of the handler after await
\* readJson(req), or after await ensureCatalog(...) when ensureCatalog
\* returns at once.
Entered(r, k, at) ==
    IF at = "idle" /\ k.method = "POST" THEN <<Job(r, "body", 0)>>
    ELSE IF EnsuresCatalog(k) /\ ~NeedsRefresh(k.method = "GET" /\ k.refresh)
    THEN <<Job(r, "handler", 0)>>
    ELSE <<>>

\* A request arrives (for a POST: with the end of its body, which resolves
\* the promise of readJson) and the handler runs up to its first await.
Handle(r, k) ==
    /\ pc[r] = "idle"
    /\ \A o \in Reqs : o < r => pc[o] # "idle"
    /\ quota > 0
    /\ overlap \/ \A o \in Reqs : pc[o] \in {"idle", "done"}
    /\ Delivers(Entered(r, k, "idle"))
    /\ quota' = quota - 1
    /\ req' = [req EXCEPT ![r] = k]
    /\ Enter(r, k, "idle")
    /\ UNCHANGED <<OPENAI_API_KEY, CACHE, now, shop, overlap, turn, remaining, found, bi,
                   inflight, seen, seenAt, matches,
                   baseline, lok, disc, dfetch, dstat, listed, installed, snapshots, rewrote,
                   pin, pout>>

\* The handler of a POST resumes after await readJson(req) and runs up to
\* its next await or to its end.
Begin(r) ==
    /\ queue # <<>>
    /\ Head(queue) = Job(r, "body", 0)
    /\ Runs(Entered(r, req[r], "body"))
    /\ Enter(r, req[r], "body")
    /\ UNCHANGED <<OPENAI_API_KEY, CACHE, now, shop, quota, overlap, turn, remaining, req,
                   found, bi, inflight, seen, seenAt, matches, baseline, lok, disc, dfetch,
                   dstat, listed, installed, snapshots, rewrote, pin, pout>>

\* The network operation fetchText waits for in the listing fetch of r
\* completes (fetch when it fails, r.text() otherwise): the continuation
\* of fetchText is queued.
ListingSettle(r) ==
    /\ pc[r] = "listing"
    /\ ~InQueue(r)
    /\ Delivers(<<Job(r, "fetchText", 0)>>)
    /\ UNCHANGED <<OPENAI_API_KEY, CACHE, now, shop, quota, overlap, turn, remaining, pc, req,
                   found, li, bi, inflight, seen, seenAt, matches, baseline, resp, lfetch, lok,
                   disc, dfetch, dstat, listed, installed, snapshots, rewrote, pin, pout>>

\* The same for the detail fetch of u.
DetailSettle(r, u) ==
    /\ u \in inflight[r]
    /\ Delivers(<<Job(r, "fetchText", u)>>)
    /\ inflight' = [inflight EXCEPT ![r] = @ \ {u}]
    /\ UNCHANGED <<OPENAI_API_KEY, CACHE, now, shop, quota, overlap, turn, remaining, pc, req,
                   found, li, bi, seen, seenAt, matches, baseline, resp, lfetch, lok, disc,
                   dfetch, dstat, listed, installed, snapshots, rewrote, pin, pout>>

\* The network operation llmRewrite waits for completes (fetch when it
\* fails or the status is not ok, r.json() otherwise): the continuation of
\* llmRewrite is queued.
RewriteSettle(r) ==
    /\ pc[r] = "rewrite"
    /\ ~InQueue(r)
    /\ Delivers(<<Job(r, "llmRewrite", 0)>>)
    /\ UNCHANGED <<OPENAI_API_KEY, CACHE, now, shop, quota, overlap, turn, remaining, pc, req,
                   found, li, bi, inflight, seen, seenAt, matches, baseline, resp, lfetch, lok,
                   disc, dfetch, dstat, listed, installed, snapshots, rewrote, pin, pout>>

\* The continuation of fetchText or of llmRewrite runs to its end: the
\* function returns or throws, which settles its promise and queues the
\* continuation of the caller that awaits it: ensureCatalog for a listing
\* page (u = 0), the callback of the batch for the page of product u, the
\* handler for llmRewrite.  What the function gave shows in the caller.
Returns(r, u) ==
    /\ queue # <<>>
    /\ \/ /\ Head(queue) = Job(r, "fetchText", u)
          /\ Runs(<<Job(r, IF u = 0 THEN "listing" ELSE "callback", u)>>)
       \/ /\ Head(queue) = Job(r, "llmRewrite", u)
          /\ Runs(<<Job(r, "rewrite", u)>>)
    /\ UNCHANGED <<OPENAI_API_KEY, CACHE, now, shop, quota, overlap, turn, remaining, pc, req,
                   found, li, bi, inflight, seen, seenAt, matches, baseline, resp, lfetch, lok,
                   disc, dfetch, dstat, listed, installed, snapshots, rewrote, pin, pout>>

\* ensureCatalog resumes after await fetchText(url) of a listing page,
\* with the text (ok) or in its catch, and runs up to its next await: the
\* next listing fetch, the first batch, or its end.
ListingResume(r, ok) ==
    LET out == IF ok THEN Ok(ListingPage(li[r], shop)) ELSE Fail
        map == IF li[r] = 1 THEN NewMap ELSE found[r]
        f == IF out.ok THEN FoundSetAll(map, out.page) ELSE map
    IN  /\ queue # <<>>
        /\ Head(queue) = Job(r, "listing", 0)
        /\ lok' = [lok EXCEPT ![r] = @ \/ out.ok]
        /\ disc' = [disc EXCEPT ![r] = @ \cup {e.url : e \in SeqToSet(out.page)}]
        /\ IF ListingEscapes(out)
           THEN /\ InternalError(r)
                /\ Runs(<<>>)
                /\ UNCHANGED <<found, li, lfetch, listed, bi, inflight, remaining, dfetch,
                               CACHE, installed, snapshots>>
           ELSE IF li[r] < NListing
           THEN /\ found' = [found EXCEPT ![r] = f]
                /\ li' = [li EXCEPT ![r] = @ + 1]
                /\ lfetch' = [lfetch EXCEPT ![r] = @ + 1]
                /\ Runs(<<>>)
                /\ UNCHANGED <<pc, resp, listed, bi, inflight, remaining, dfetch, CACHE,
                               installed, snapshots>>
           ELSE /\ found' = [found EXCEPT ![r] = f]
                /\ listed' = [listed EXCEPT ![r] = f]
                /\ Advance(r, f, 0, {})
                /\ UNCHANGED <<resp, li, lfetch>>
        /\ UNCHANGED <<OPENAI_API_KEY, now, shop, quota, overlap, turn, req, seen, seenAt,
                       matches, baseline, dstat, rewrote, pin, pout>>

\* The callback of the batch resumes after await fetchText(u), with the
\* text or in its catch (out is what the fetch gave), and runs to its end,
\* which settles its promise and queues the reaction of Promise.all.
Callback(r, u, out) ==
    LET f == IF out.ok THEN ApplyDetail(found[r], u, extractFromProductPage(out.page, u))
             ELSE found[r]
    IN  /\ queue # <<>>
        /\ Head(queue) = Job(r, "callback", u)
        /\ out \in DetailOutcomes(u)
        /\ dstat' = [dstat EXCEPT ![r][u] = IF out.ok THEN "ok" ELSE "fail"]
        /\ IF DetailEscapes(out)
           THEN /\ InternalError(r)
                /\ Runs(<<>>)
                /\ UNCHANGED found
           ELSE /\ found' = [found EXCEPT ![r] = f]
                /\ Runs(<<Job(r, "element", u)>>)
                /\ UNCHANGED <<pc, resp>>
        /\ UNCHANGED <<OPENAI_API_KEY, CACHE, now, shop, quota, overlap, turn, remaining, req,
                       li, bi, inflight, seen, seenAt, matches, baseline, lfetch, lok, disc,
                       dfetch, listed, installed, snapshots, rewrote, pin, pout>>

\* The reaction of Promise.all to the promise of the callback of u: one
\* element less remains, and with the last one Promise.all is fulfilled,
\* which queues the continuation of ensureCatalog.
PromiseAll(r, u) ==
    LET rest == remaining[r] \ {u}
        last == pc[r] = "detail" /\ BatchSettled(rest)
    IN  /\ queue # <<>>
        /\ Head(queue) = Job(r, "element", u)
        /\ remaining' = [remaining EXCEPT ![r] = rest]
        /\ pc' = [pc EXCEPT ![r] = IF last THEN "settled" ELSE @]
        /\ Runs(IF last THEN <<Job(r, "batch", 0)>> ELSE <<>>)
        /\ UNCHANGED <<OPENAI_API_KEY, CACHE, now, shop, quota, overlap, turn, req, found, li,
                       bi, inflight, seen, seenAt, matches, baseline, resp, lfetch, lok, disc,
                       dfetch, dstat, listed, installed, snapshots, rewrote, pin, pout>>

\* ensureCatalog resumes after await Promise.all(...): i += limit, then the
\* next batch is issued, or the loop ends and the catalog is installed.
BatchResume(r) ==
    /\ queue # <<>>
    /\ Head(queue) = Job(r, "batch", 0)
    /\ Advance(r, found[r], bi[r] + limit, remaining[r])
    /\ UNCHANGED <<OPENAI_API_KEY, now, shop, quota, overlap, turn, req, found, li, seen,
                   seenAt, matches, baseline, resp, lfetch, lok, disc, dstat, listed, rewrote,
                   pin, pout>>

\* The handler resumes after await ensureCatalog(...) and runs to its end
\* or to await llmRewrite(...).
Resume(r) ==
    LET k == req[r]
        ms == findMatches(Trim(k.question), CACHE.products)
        bl == makeDeterministicAnswer(Trim(k.question), ms)
    IN  /\ queue # <<>>
        /\ Head(queue) = Job(r, "handler", 0)
        /\ Runs(<<>>)
        /\ seen' = [seen EXCEPT ![r] = Some(CACHE.products)]
        /\ seenAt' = [seenAt EXCEPT ![r] = Some(CACHE.lastScrape)]
        /\ IF k.method = "GET"
           THEN /\ pc' = [pc EXCEPT ![r] = "done"]
                /\ resp' = [resp EXCEPT ![r] =
                              [json("catalog", 200) EXCEPT !.count = Len(CACHE.products),
                                                           !.updatedAt = CACHE.lastScrape]]
                /\ UNCHANGED <<matches, baseline>>
           ELSE IF OPENAI_API_KEY /\ Len(ms) # 0
                   THEN /\ pc' = [pc EXCEPT ![r] = "rewrite"]
                        /\ matches' = [matches EXCEPT ![r] = ms]
                        /\ baseline' = [baseline EXCEPT ![r] = bl]
                        /\ UNCHANGED resp
                   ELSE /\ pc' = [pc EXCEPT ![r] = "done"]
                        /\ UNCHANGED <<matches, baseline>>
                        /\ resp' = [resp EXCEPT ![r] =
                                      [json("answer", 200) EXCEPT !.answer = bl,
                                                                  !.matches = ms,
                                                                  !.updatedAt = CACHE.lastScrape]]
        /\ Forget(r)
        /\ UNCHANGED <<OPENAI_API_KEY, CACHE, now, shop, quota, overlap, turn, remaining, req,
                       inflight, snapshots, rewrote, pin, pout>>

\* Mutant: the exception of llmRewrite reaches the catch of the handler.
RewriteFailureEscapes(out) == out = "throw"

\* try { answer = await llmRewrite(baseline, question); } catch {}
RewriteEscapes(out) == FALSE

\* The value of llmRewrite when it returns: content?.trim() || baseline.
llmRewrite(out, bl) == IF out = "text" THEN [kind |-> "rewritten", lines |-> <<>>] ELSE bl

\* The handler resumes after await llmRewrite(...), with its value or in
\* the catch (out), and runs to its end; answer was initialised to baseline
\* and keeps it when the call throws.
RewriteResume(r, out) ==
    LET answer == IF out = "throw" THEN baseline[r] ELSE llmRewrite(out, baseline[r])
    IN  /\ queue # <<>>
        /\ Head(queue) = Job(r, "rewrite", 0)
        /\ out \in RewriteOutcomes
        /\ Runs(<<>>)
        /\ rewrote' = [rewrote EXCEPT ![r] = out]
        /\ IF RewriteEscapes(out)
           THEN InternalError(r)
           ELSE /\ pc' = [pc EXCEPT ![r] = "done"]
                /\ resp' = [resp EXCEPT ![r] =
                              [json("answer", 200) EXCEPT !.answer = answer,
                                                          !.matches = matches[r],
                                                          !.updatedAt = CACHE.lastScrape]]
        /\ matches' = [matches EXCEPT ![r] = <<>>]
        /\ baseline' = [baseline EXCEPT ![r] = [kind |-> "none", lines |-> <<>>]]
        /\ UNCHANGED <<OPENAI_API_KEY, CACHE, now, shop, quota, overlap, turn, remaining, req,
                       found, li, bi, inflight, seen, seenAt, lfetch, lok, disc, dfetch, dstat,
                       listed, installed, snapshots, pin, pout>>

\* Time passes: by one millisecond or by one freshness window.
Tick(d) ==
    LET elapsed == now - StartNow
    IN  /\ \/ d = 1 /\ elapsed % MAX_AGE_MS < MaxMillis
           \/ d = MAX_AGE_MS /\ elapsed \div MAX_AGE_MS < MaxHours
        /\ now' = now + d
        /\ UNCHANGED <<OPENAI_API_KEY, CACHE, shop, quota, overlap, turn, queue, draining,
                       remaining, pc, req, found, li, bi, inflight,
                       seen, seenAt, matches, baseline, resp, lfetch, lok, disc, dfetch, dstat, listed,
                       installed, snapshots, rewrote, pin, pout>>

\* extractFromProductPage is applied to the page under test.
Extract ==
    /\ pin # Null
    /\ pout = Null
    /\ pout' = Some(extractFromProductPage(pin[1], 1))
    /\ UNCHANGED <<OPENAI_API_KEY, CACHE, now, shop, quota, overlap, turn, queue, draining,
                   remaining, pc, req, found, li, bi,
                   inflight, seen, seenAt, matches, baseline, resp, lfetch, lok, disc, dfetch, dstat,
                   listed, installed, snapshots, rewrote, pin>>

\* Another input is put under test.
NewPage(p) ==
    /\ pout # Null
    /\ pin' = Some(p)
    /\ pout' = Null
    /\ UNCHANGED <<OPENAI_API_KEY, CACHE, now, shop, quota, overlap, turn, queue, draining,
                   remaining, pc, req, found, li, bi,
                   inflight, seen, seenAt, matches, baseline, resp, lfetch, lok, disc, dfetch, dstat,
                   listed, installed, snapshots, rewrote>>

\* collectOfferPrices is applied to the object under test, with empty
\* saleOut and generalOut.
Collect ==
    /\ pin # Null
    /\ pout = Null
    /\ pout' = Some(collectOfferPrices(pin[1]))
    /\ UNCHANGED <<OPENAI_API_KEY, CACHE, now, shop, quota, overlap, turn, queue, draining,
                   remaining, pc, req, found, li, bi,
                   inflight, seen, seenAt, matches, baseline, resp, lfetch, lok, disc, dfetch, dstat,
                   listed, installed, snapshots, rewrote, pin>>

\* The synchronous part of the POST handler on the question and catalog
\* under test: findMatches, then makeDeterministicAnswer.
Answer ==
    /\ pin # Null
    /\ pout = Null
    /\ LET ms == findMatches(Trim(pin[1].question), pin[1].catalog)
       IN  pout' = Some([matches |-> ms,
                         baseline |-> makeDeterministicAnswer(Trim(pin[1].question), ms)])
    /\ UNCHANGED <<OPENAI_API_KEY, CACHE, now, shop, quota, overlap, turn, queue, draining,
                   remaining, pc, req, found, li, bi,
                   inflight, seen, seenAt, matches, baseline, resp, lfetch, lok, disc, dfetch, dstat,
                   listed, installed, snapshots, rewrote, pin>>

\* The price under test is formatted by fromNumberToBRL and the text is
\* parsed back by toNumberBRL, as it is and as the catalog filter passes
\* it: String(p.price).replace('R$','').trim().
RoundTrip ==
    /\ pin # Null
    /\ pout = Null
    /\ LET text == fromNumberToBRL(pin[1])
       IN  pout' = Some([text |-> text,
                         parsed |-> toNumberBRL(text),
                         stripped |-> toNumberBRL(Trim(StripCurrency(text)))])
    /\ UNCHANGED <<OPENAI_API_KEY, CACHE, now, shop, quota, overlap, turn, queue, draining,
                   remaining, pc, req, found, li, bi,
                   inflight, seen, seenAt, matches, baseline, resp, lfetch, lok, disc, dfetch, dstat,
                   listed, installed, snapshots, rewrote, pin>>

\* ------------------------------------------------------- specifications
InitServer ==
    /\ CACHE = [products |-> <<>>, lastScrape |-> 0]
    /\ pc = [r \in Reqs |-> "idle"]
    /\ req = [r \in Reqs |-> Request("NONE", FALSE, <<>>)]
    /\ found = [r \in Reqs |-> <<>>]
    /\ li = [r \in Reqs |-> 0]
    /\ bi = [r \in Reqs |-> 0]
    /\ inflight = [r \in Reqs |-> {}]
    /\ remaining = [r \in Reqs |-> {}]
    /\ queue = <<>>
    /\ draining = FALSE
    /\ seen = [r \in Reqs |-> Null]
    /\ seenAt = [r \in Reqs |-> Null]
    /\ matches = [r \in Reqs |-> <<>>]
    /\ baseline = [r \in Reqs |-> [kind |-> "none", lines |-> <<>>]]
    /\ resp = [r \in Reqs |-> NoResponse]
    /\ lfetch = [r \in Reqs |-> 0]
    /\ lok = [r \in Reqs |-> FALSE]
    /\ disc = [r \in Reqs |-> {}]
    /\ dfetch = [r \in Reqs |-> [u \in Urls |-> 0]]
    /\ dstat = [r \in Reqs |-> [u \in Urls |-> "none"]]
    /\ listed = [r \in Reqs |-> <<>>]
    /\ installed = [r \in Reqs |-> Null]
    /\ snapshots = {}
    /\ rewrote = [r \in Reqs |-> "none"]

\* Requests that overlap within a few milliseconds, with the rewrite
\* service configured.
Init ==
    /\ InitServer
    /\ OPENAI_API_KEY = TRUE
    /\ now = StartNow + MaxHours * MAX_AGE_MS
    /\ shop = SmallShop
    /\ quota = MaxReq
    /\ overlap = TRUE
    /\ turn = MaxTurn
    /\ pin = Null
    /\ pout = Null

\* Requests that follow one another.
InitSeq ==
    /\ InitServer
    /\ OPENAI_API_KEY \in BOOLEAN
    /\ now = StartNow
    /\ shop = MidShop
    /\ quota = MaxReq
    /\ overlap = FALSE
    /\ turn = 1
    /\ pin = Null
    /\ pout = Null

\* One request, on a site whose products fill more than one batch.
InitBatch ==
    /\ InitServer
    /\ OPENAI_API_KEY \in BOOLEAN
    /\ now = StartNow + MaxHours * MAX_AGE_MS
    /\ shop = limit + ExtraShop
    /\ quota = 1
    /\ overlap = FALSE
    /\ turn = 1
    /\ pin = Null
    /\ pout = Null

\* No request: a product page is put through extractFromProductPage.
InitPrice ==
    /\ InitServer
    /\ OPENAI_API_KEY = FALSE
    /\ now = StartNow
    /\ shop = 0
    /\ quota = 0
    /\ overlap = FALSE
    /\ turn = 1
    /\ pin \in {Some(p) : p \in TestPages}
    /\ pout = Null

\* No request: a JSON-LD object is put through collectOfferPrices.
InitOffers ==
    /\ InitServer
    /\ OPENAI_API_KEY = FALSE
    /\ now = StartNow
    /\ shop = 0
    /\ quota = 0
    /\ overlap = FALSE
    /\ turn = 1
    /\ pin \in {Some(o) : o \in LdObjects(MaxNesting)}
    /\ pout = Null

NextOffers == Collect

\* No request: a question is answered from a catalog.
InitAnswer ==
    /\ InitServer
    /\ OPENAI_API_KEY = FALSE
    /\ now = StartNow
    /\ shop = 0
    /\ quota = 0
    /\ overlap = FALSE
    /\ turn = 1
    /\ pin \in {Some([question |-> q, catalog |-> c]) : q \in TestQuestions, c \in TestCatalogs}
    /\ pout = Null

NextAnswer == Answer

\* Prices in cents: 0.00 to 1.49 by the cent, and multiples of 9.97 up to
\* 1485.53, which have a thousands digit.
TestValues == {c * k : c \in 0..MaxCents, k \in {1, 997}}

\* No request: a price is formatted and parsed back.
InitRound ==
    /\ InitServer
    /\ OPENAI_API_KEY = FALSE
    /\ now = StartNow
    /\ shop = 0
    /\ quota = 0
    /\ overlap = FALSE
    /\ turn = 1
    /\ pin \in {Some(v) : v \in TestValues}
    /\ pout = Null

NextRound == RoundTrip

NextPrice ==
    \/ Extract
    \/ \E p \in TestPages : NewPage(p)

Next ==
    \/ \E r \in Reqs, k \in Requests : Handle(r, k)
    \/ \E r \in Reqs : Begin(r)
    \/ \E r \in Reqs : ListingSettle(r)
    \/ \E r \in Reqs, u \in Urls : DetailSettle(r, u)
    \/ \E r \in Reqs : RewriteSettle(r)
    \/ \E r \in Reqs, u \in Urls \cup {0} : Returns(r, u)
    \/ \E r \in Reqs, ok \in BOOLEAN : ListingResume(r, ok)
    \/ \E r \in Reqs, u \in Urls, out \in UNION {DetailOutcomes(v) : v \in Urls} :
           Callback(r, u, out)
    \/ \E r \in Reqs, u \in Urls : PromiseAll(r, u)
    \/ \E r \in Reqs : BatchResume(r)
    \/ \E r \in Reqs : Resume(r)
    \/ \E r \in Reqs, out \in RewriteOutcomes : RewriteResume(r, out)
    \/ \E d \in {1, MAX_AGE_MS} : Tick(d)

Spec == Init /\ [][Next]_vars

SpecSeq == InitSeq /\ [][Next]_vars

SpecBatch == InitBatch /\ [][Next]_vars

SpecPrice == InitPrice /\ [][NextPrice]_vars

SpecOffers == InitOffers /\ [][NextOffers]_vars

SpecAnswer == InitAnswer /\ [][NextAnswer]_vars

SpecRound == InitRound /\ [][NextRound]_vars

\* The steps on which the fairness of the event loop bears: the network
\* operation of the listing fetch of r, or of a detail fetch of r,
\* completes; the rewrite call of r completes; the job at the head of the
\* microtask queue runs (the steps that take the head off the queue, which
\* then queue at most one job of the same request).
DetailSettles(r) == \E u \in Urls : DetailSettle(r, u)

Drains ==
    /\ queue # <<>>
    /\ \E next \in {<<>>} \cup
                   {<<Job(Head(queue).r, kind, u)>> :
                       kind \in {"listing", "callback", "element", "batch", "handler", "rewrite"},
                       u \in {0, Head(queue).u}} :
           queue' = Tail(queue) \o next

\* One request on the site of more than one batch: every listing and
\* detail fetch settles and the event loop runs the jobs of its queue.
\* Nothing makes the rewrite call settle.
SpecLive ==
    /\ InitBatch
    /\ [][Next]_vars
    /\ WF_queue(Drains)
    /\ \A r \in Reqs : WF_vars(ListingSettle(r)) /\ WF_vars(DetailSettles(r))

\* ------------------------------------------------------------ properties
Forced(k) == k.method = "GET" /\ k.refresh

\* A step in which the handler of request r calls ensureCatalog without
\* force.
CallsUnforced(r) ==
    /\ pc[r] \in {"idle", "body"}
    /\ pc'[r] \notin {"idle", "body"}
    /\ EnsuresCatalog(req'[r])
    /\ ~Forced(req'[r])

\* The call returned at once: no fetch was issued and the cache is as it was.
NoWork(r) ==
    /\ pc'[r] = "resume"
    /\ lfetch'[r] = 0
    /\ dfetch'[r] = [u \in Urls |-> 0]
    /\ CACHE' = CACHE

\* C1 (as amended): a call ensureCatalog(false) made at most one hour after
\* the last completed refresh, while the cache holds at least one product,
\* issues no listing fetch and no detail fetch and leaves the product list
\* and the timestamp unchanged.
C1_FreshCallDoesNoWork ==
    [][\A r \in Reqs :
          (/\ CallsUnforced(r)
           /\ CACHE.lastScrape > 0
           /\ now - CACHE.lastScrape <= MAX_AGE_MS
           /\ Len(CACHE.products) > 0) => NoWork(r)]_vars

\* C1 as the specification states it: any call ensureCatalog(false) made
\* within the hour that follows a completed refresh does no network work.
C1_AsStated ==
    [][\A r \in Reqs :
          (/\ CallsUnforced(r)
           /\ CACHE.lastScrape > 0
           /\ now - CACHE.lastScrape <= MAX_AGE_MS) => NoWork(r)]_vars

\* The second request called ensureCatalog(false) exactly one hour after
\* the first request's refresh, on a cache with products, and it returned
\* without a fetch.
C1_Witness ==
    /\ pc[1] = "done"
    /\ resp[1].kind = "catalog"
    /\ resp[1].count > 0
    /\ pc[2] = "resume"
    /\ ~Forced(req[2])
    /\ lfetch[2] = 0
    /\ now - CACHE.lastScrape = MAX_AGE_MS
    /\ CACHE.lastScrape = resp[1].updatedAt

\* The refresh cycle of request r has completed and control is about to
\* return to the handler.
CycleDone(r) == pc[r] = "resume" /\ installed[r] # Null

\* C2: when a call ensureCatalog(true) returns, it has fetched every
\* configured listing URL and every discovered detail URL, and it has
\* replaced the catalog and stamped the timestamp, whatever the cache held.
C2_ForcedRefreshIsFull ==
    \A r \in Reqs :
        pc[r] = "resume" /\ Forced(req[r]) =>
            /\ lfetch[r] = NListing
            /\ \A u \in disc[r] : dfetch[r][u] = 1 /\ dstat[r][u] # "none"
            /\ inflight[r] = {}
            /\ remaining[r] = {}
            /\ installed[r] # Null
            /\ CACHE = installed[r][1]
            /\ CACHE.lastScrape <= now
            /\ \A o \in Reqs : resp[o].kind = "catalog" => resp[o].updatedAt <= CACHE.lastScrape

\* A forced refresh has run in full although the cache was fresh and held
\* products: the previous refresh took place in the same millisecond.
C2_Witness ==
    /\ pc[1] = "done"
    /\ resp[1].kind = "catalog"
    /\ resp[1].count > 0
    /\ CycleDone(2)
    /\ Forced(req[2])
    /\ lfetch[2] = NListing
    /\ CACHE.lastScrape = resp[1].updatedAt
    /\ Len(CACHE.products) = 0

In(u, products) == \E j \in 1..Len(products) : products[j].url = u

\* C5: after a completed refresh cycle, a product discovered in the cycle
\* is in the catalog if and only if it ended the cycle with a non-empty
\* name and a priceValue that is not null.
C5_Retention ==
    \A r \in Reqs :
        CycleDone(r) =>
            /\ \A i \in 1..Len(found[r]) :
                  In(found[r][i].url, CACHE.products)
                      <=> (found[r][i].name # <<>> /\ found[r][i].priceValue # Null)
            /\ disc[r] = SeqToSet(UrlsOf(found[r]))

\* A cycle has completed with a product that has a name and no price,
\* which is absent from the catalog, and a product whose price resolved to
\* 0 (a priceValue with no display price), which is in it.
C5_Witness ==
    /\ CycleDone(1)
    /\ \E i \in 1..Len(found[1]) :
          /\ found[1][i].url = 1
          /\ found[1][i].name = N_TenisPro
          /\ found[1][i].priceValue = Null
    /\ ~In(1, CACHE.products)
    /\ \E i \in 1..Len(found[1]) :
          /\ found[1][i].url = 2
          /\ found[1][i].price = Null
          /\ found[1][i].priceValue = Some(0)
    /\ In(2, CACHE.products)

\* The names and prices the pages of the site give for product u.
NamesOf(u) ==
    {ListingName(u)} \cup (IF u = 1 THEN {N_Tenis} ELSE {})
        \cup {pg.name : pg \in {q \in DetailPages(u) : q.name # <<>>}}
PricesOf(u) ==
    {extractFromProductPage(pg, u).priceNum[1] :
        pg \in {q \in DetailPages(u) : extractFromProductPage(q, u).priceNum # Null}}

\* C6: after a completed refresh cycle the catalog holds only products
\* whose URL was on a listing page fetched in that cycle and whose price
\* was read from their product page in that cycle; nothing of the previous
\* catalog is kept.
C6_WholesaleReplacement ==
    \A r \in Reqs :
        CycleDone(r) =>
            /\ \A j \in 1..Len(CACHE.products) :
                  LET p == CACHE.products[j]
                  IN  /\ p.url \in disc[r]
                      /\ dstat[r][p.url] = "ok"
                      /\ p.name \in NamesOf(p.url)
                      /\ p.priceValue \in PricesOf(p.url)
            /\ ~lok[r] => CACHE.products = <<>>
            /\ \A j, k \in 1..Len(CACHE.products) :
                  CACHE.products[j].url = CACHE.products[k].url => j = k

\* The previous catalog held products 1 and 2; in the second cycle the
\* listing page of product 2 could not be fetched, and the new catalog no
\* longer holds product 2.
C6_Witness ==
    /\ resp[1].kind = "catalog"
    /\ resp[1].count = 2
    /\ CycleDone(2)
    /\ disc[2] = {1}
    /\ In(1, CACHE.products)
    /\ ~In(2, CACHE.products)

\* C10: on a product page, the resolved price (priceNum) is the minimum of
\* the sale candidates when there is one, whatever the general candidates;
\* otherwise the minimum of the general candidates; null with no candidate.
C10_Reconciliation ==
    pout # Null =>
        LET sale == SeqToSet(pin[1].sale)
            general == SeqToSet(pin[1].general)
            res == pout[1].priceNum
        IN  /\ sale # {} =>
                  res # Null /\ res[1] \in sale /\ \A c \in sale : res[1] <= c
            /\ sale = {} /\ general # {} =>
                  res # Null /\ res[1] \in general /\ \A c \in general : res[1] <= c
            /\ sale = {} /\ general = {} => res = Null /\ pout[1].price = Null

\* A page whose general candidate is lower than its sale candidates has
\* been resolved to the lowest sale candidate.
C10_Witness ==
    /\ pout # Null
    /\ pin[1].sale = <<9900, 9900>>
    /\ pin[1].general = <<8000>>
    /\ pout[1].priceNum = Some(9900)
    /\ pout[1].price = Some(<<"R", "$", " ", "9", "9", ",", "0", "0">>)

\* The batch of u in the cycle of request r, counted from 0: urls is the
\* list of the URLs found when the listing phase ended.
BatchOf(r, u) ==
    ((CHOOSE i \in 1..Len(listed[r]) : listed[r][i].url = u) - 1) \div limit

\* C8: in a refresh cycle at most 6 detail fetches are in flight at any
\* moment, and while a fetch of a batch is in flight no fetch of a later
\* batch has been started.
C8_BoundedBatches ==
    \A r \in Reqs :
        /\ Cardinality(inflight[r]) <= 6
        /\ \A u \in inflight[r], v \in disc[r] :
              dfetch[r][v] > 0 => BatchOf(r, v) <= BatchOf(r, u)

\* The six fetches of the first batch have settled, one of them by a
\* failure, and the only fetch in flight is the one of the second batch.
C8_Witness ==
    /\ pc[1] = "detail"
    /\ Len(listed[1]) = limit + 1
    /\ Cardinality(inflight[1]) = 1
    /\ \A u \in inflight[1] : BatchOf(1, u) = 1
    /\ \A v \in disc[1] \ inflight[1] : BatchOf(1, v) = 0 /\ dstat[1][v] # "none"
    /\ \E v \in disc[1] : dstat[1][v] = "fail"

\* The entry of u in a map, and in the list of the listing phase.
EntryOf(f, u) == f[CHOOSE i \in 1..Len(f) : f[i].url = u]

\* C9: a failed detail fetch ends neither the cycle nor the request; when
\* the cycle completes every discovered URL has been fetched exactly once
\* and has settled, the entry of a URL whose fetch failed is as the listing
\* phase left it and is not in the catalog, and the entry of a URL whose
\* fetch succeeded holds what its page gives.
C9_FaultIsolation ==
    \A r \in Reqs :
        /\ (\E u \in Urls : dstat[r][u] = "fail") =>
              pc[r] \in {"detail", "settled", "resume"} /\ resp[r] = NoResponse
        /\ \A u \in disc[r] : dfetch[r][u] <= 1
        /\ CycleDone(r) =>
              \A u \in disc[r] :
                  /\ dfetch[r][u] = 1
                  /\ dstat[r][u] \in {"ok", "fail"}
                  /\ dstat[r][u] = "fail" =>
                        /\ EntryOf(found[r], u) = EntryOf(listed[r], u)
                        /\ ~In(u, CACHE.products)
                  /\ dstat[r][u] = "ok" =>
                        /\ EntryOf(found[r], u).priceValue \in
                              {extractFromProductPage(pg, u).priceNum : pg \in DetailPages(u)}
                        /\ In(u, CACHE.products) <=> EntryOf(found[r], u).priceValue # Null

\* A cycle of two batches has completed: the fetch of product 3 failed,
\* its batch-mates and the product of the second batch are in the catalog
\* and product 3 is not.
C9_Witness ==
    /\ CycleDone(1)
    /\ Len(listed[1]) = limit + 1
    /\ dstat[1][3] = "fail"
    /\ \A u \in disc[1] \ {3} : dstat[1][u] = "ok"
    /\ Len(CACHE.products) = limit
    /\ ~In(3, CACHE.products)
    /\ In(limit + 1, CACHE.products)

\* C3: whatever the interleaving, the product list a request reads after
\* its await, and the list of the cache at any moment, is the initial empty
\* list or the list a cycle installed when all its fetches had settled.
C3_CompleteSnapshots ==
    /\ CACHE.products = <<>> \/ CACHE.products \in snapshots
    /\ \A r \in Reqs :
          seen[r] # Null => seen[r][1] = <<>> \/ seen[r][1] \in snapshots

\* The first request has read a catalog of two products while the cycle
\* of the second request, whose map holds a product with a price and a
\* product without, was still fetching.
C3_Witness ==
    /\ seen[1] # Null
    /\ Len(seen[1][1]) = 2
    /\ pc[2] = "detail"
    /\ inflight[2] = {2}
    /\ dstat[2][1] = "ok"
    /\ EntryOf(found[2], 1).priceValue # Null
    /\ EntryOf(found[2], 2).priceValue = Null

Refreshing(r) == pc[r] \in {"listing", "detail", "settled"}

\* C4 as the specification states it: at most one refresh cycle is in
\* flight at any time.
C4_AsStated == Cardinality({r \in Reqs : Refreshing(r)}) <= 1

\* Two cycles fetch at the same time: the first one fetches product pages
\* and the second one a listing page.
C4_Witness ==
    /\ pc[1] = "detail"
    /\ inflight[1] # {}
    /\ pc[2] = "listing"

\* C7: a cycle whose listing fetches all failed completes with an empty
\* catalog, and the request that started it is answered with status 200,
\* with count 0 for a GET and with the not-found answer for a POST,
\* whatever other requests do meanwhile; and no GET or POST with a
\* question is answered with status 500, whatever fetches fail.
C7_TotalFailureAnswered ==
    [][\A r \in Reqs :
          /\ resp'[r].status # 500
          /\ (CycleDone(r) /\ ~lok[r]) =>
                /\ installed[r][1].products = <<>>
                /\ CACHE.products = <<>>
          /\ (CycleDone(r) /\ ~lok[r] /\ pc'[r] # "resume") =>
                /\ pc'[r] = "done"
                /\ resp'[r].status = 200
                /\ req[r].method = "GET" => resp'[r].count = 0
                /\ req[r].method = "POST" => resp'[r].answer.kind = "notfound"]_vars

\* Every listing fetch of the first request's cycle failed and its cycle
\* has installed an empty catalog; its last listing fetch settled in the
\* same turn as the last detail fetch of the second request, whose cycle
\* has a priced product to install and resumes after the first request
\* has been answered.
C7_Witness ==
    /\ CycleDone(1)
    /\ ~lok[1]
    /\ CACHE.products = <<>>
    /\ pc[2] = "settled"
    /\ Retained(found[2]) # <<>>
    /\ Len(queue) = 2
    /\ queue[1].r = 1
    /\ queue[2].r = 2

\* The objects of a JSON-LD tree.
RECURSIVE ObjectsOf(_)
ObjectsOf(obj) ==
    {obj} \cup UNION {ObjectsOf(obj.offers[i]) : i \in 1..Len(obj.offers)}
          \cup UNION {ObjectsOf(obj.kids[i]) : i \in 1..Len(obj.kids)}

\* The finite values of the field texts under test, in cents.
FiniteValue(field) ==
    IF field = Some(T_80c5) THEN {8050}
    ELSE IF field = Some(T_7e1) THEN {7000}
    ELSE IF field = Some(T_m5) THEN {-500}
    ELSE IF field = Some(T_99d900) THEN {9990}
    ELSE {}

\* C11 (as amended): walking a JSON-LD object adds every finite lowPrice
\* to the sale candidates and every finite price and every finite
\* highPrice to the general candidates, and nothing else.
C11_OfferTags ==
    pout # Null =>
        LET objs == ObjectsOf(pin[1])
        IN  /\ SeqToSet(pout[1].sale) = UNION {FiniteValue(o.lowPrice) : o \in objs}
            /\ SeqToSet(pout[1].general) =
                  UNION {FiniteValue(o.price) \cup FiniteValue(o.highPrice) : o \in objs}

\* C11 as the specification states it: every finite price and every
\* finite lowPrice is a sale candidate, every finite highPrice a general one.
C11_AsStated ==
    pout # Null =>
        \A o \in ObjectsOf(pin[1]) :
            /\ FiniteValue(o.price) \subseteq SeqToSet(pout[1].sale)
            /\ FiniteValue(o.lowPrice) \subseteq SeqToSet(pout[1].sale)
            /\ FiniteValue(o.highPrice) \subseteq SeqToSet(pout[1].general)

\* An object whose offer has price "80,5", lowPrice "7e1" and highPrice
\* "99.900" has been walked: 70.00 is a sale candidate, 80.50 and 99.90 are
\* general candidates.
C11_Witness ==
    /\ pout # Null
    /\ pin[1].price = Some(T_x)
    /\ Len(pin[1].offers) = 1
    /\ pin[1].offers[1].price = Some(T_80c5)
    /\ pin[1].offers[1].lowPrice = Some(T_7e1)
    /\ pin[1].offers[1].highPrice = Some(T_99d900)
    /\ SeqToSet(pout[1].sale) = {7000}
    /\ SeqToSet(pout[1].general) = {8050, 9990}

\* C12 as the specification states it: every product of the cache and of
\* every installed snapshot has a priceValue that is not negative.
C12_AsStated ==
    \A products \in snapshots \cup {CACHE.products} :
        \A j \in 1..Len(products) : products[j].priceValue >= 0

\* The page of product 3 carried an offer with lowPrice -5 and the
\* catalog holds product 3 with priceValue -5.00.
C12_Witness ==
    /\ CycleDone(1)
    /\ dstat[1][3] = "ok"
    /\ \E j \in 1..Len(CACHE.products) :
          /\ CACHE.products[j].url = 3
          /\ CACHE.products[j].priceValue = -500
          /\ CACHE.products[j].price = <<"R", "$", " ", "-", "5", ",", "0", "0">>

\* The category keyword each question under test contains first in the
\* fixed list (Null: none), and its registered synonym.
ExpectedKeyword(q) ==
    IF q = Q_Tenis THEN Some(W_tenis)
    ELSE IF q \in {Q_SapatenisVerde, Q_MaisCaro, Q_Lista, Q_MaisBarato} THEN Some(W_sapatenis)
    ELSE Null

ExpectedSynonym(k) == IF k = W_sapatenis THEN W_sapatennis ELSE k

\* The scores of the products of the catalog under test, by position.
ScoresOf(question, cat) ==
    LET toks == Tokens(normalize(Trim(question)))
    IN  [i \in 1..Len(cat) |-> Score(cat[i].normName, toks)]

\* The positions of the catalog whose product has a positive score and
\* passes the category filter.
Eligible(question, cat, sc) ==
    LET k == ExpectedKeyword(question)
    IN  {i \in 1..Len(cat) :
            /\ sc[i] > 0
            /\ k # Null => \/ Includes(cat[i].normName, k[1])
                           \/ Includes(cat[i].normName, ExpectedSynonym(k[1]))}

\* The product at position i goes strictly before the one at position j
\* in the ranking.
RanksBefore(cat, sc, i, j) ==
    \/ sc[i] > sc[j]
    \/ sc[i] = sc[j] /\ cat[i].priceValue < cat[j].priceValue

\* C13: findMatches returns min(8, n) of the n products with a positive
\* score that pass the category filter, each once and without the internal
\* fields, in descending order of score and, among equal scores, ascending
\* order of priceValue, and no product left out ranks before a returned one.
C13_TopEight ==
    pout # Null =>
        LET cat == pin[1].catalog
            ms == pout[1].matches
            sc == ScoresOf(pin[1].question, cat)
            el == Eligible(pin[1].question, cat, sc)
            n == Cardinality(el)
            at == [k \in 1..Len(ms) |->
                     IF \E i \in el : cat[i].url = ms[k].url
                     THEN CHOOSE i \in el : cat[i].url = ms[k].url ELSE 0]
            out == {i \in el : \A k \in 1..Len(ms) : at[k] # i}
        IN  /\ Len(ms) = IF n < 8 THEN n ELSE 8
            /\ \A k \in 1..Len(ms) :
                  /\ at[k] # 0
                  /\ ms[k] = [name |-> cat[at[k]].name, url |-> cat[at[k]].url,
                              price |-> cat[at[k]].price,
                              priceValue |-> cat[at[k]].priceValue]
                  /\ \A j \in 1..Len(ms) : at[j] = at[k] => j = k
                  /\ k < Len(ms) => ~RanksBefore(cat, sc, at[k + 1], at[k])
                  /\ \A i \in out : ~RanksBefore(cat, sc, i, at[k])

\* Nine products of the catalog of eleven match "Quanto custa o te^nis?"
\* with the same score: the eight cheapest are returned, cheapest first,
\* and the second of the two products at 120.00 is left out.
C13_Witness ==
    /\ pout # Null
    /\ pin[1].question = Q_Tenis
    /\ Len(pin[1].catalog) = 11
    /\ Cardinality(Eligible(Q_Tenis, pin[1].catalog, ScoresOf(Q_Tenis, pin[1].catalog))) = 9
    /\ Len(pout[1].matches) = 8
    /\ pout[1].matches[1].url = 11
    /\ pout[1].matches[8].url = 4
    /\ \A k \in 1..8 : pout[1].matches[k].url # 10

\* C14: when the normalized question contains a category keyword, the one
\* selected is the first of the fixed list that occurs in it (so not a
\* keyword that occurs only inside an earlier, longer one), and every
\* product returned has a normalized name that contains that keyword or
\* its synonym.
C14_CategoryFilter ==
    pout # Null =>
        LET qn == normalize(Trim(pin[1].question))
            occurs == {i \in 1..Len(HARD_FILTERS) : Includes(qn, HARD_FILTERS[i])}
            first == CHOOSE i \in occurs : \A j \in occurs : i <= j
            ms == pout[1].matches
        IN  occurs # {} =>
                /\ HardFilter(qn) = Some(HARD_FILTERS[first])
                /\ ExpectedKeyword(pin[1].question) = Some(HARD_FILTERS[first])
                /\ \A k \in 1..Len(ms) :
                      \/ Includes(normalize(ms[k].name), HARD_FILTERS[first])
                      \/ Includes(normalize(ms[k].name), ExpectedSynonym(HARD_FILTERS[first]))

\* "Quanto custa o sapate^nis verde?" contains sapatenis and, inside it,
\* tenis; the catalog holds "Sapate^nis Verde", "Sapatennis Azul" and
\* "Te^nis Verde": the first two are returned, the third is not.
C14_Witness ==
    /\ pout # Null
    /\ pin[1].question = Q_SapatenisVerde
    /\ {pin[1].catalog[i].url : i \in 1..Len(pin[1].catalog)} = {1, 2, 6}
    /\ {pout[1].matches[k].url : k \in 1..Len(pout[1].matches)} = {1, 2}

\* The positions of the match list whose priceValue is the greatest, and
\* the least, of the list.
Dearest(ms) == {k \in 1..Len(ms) : \A j \in 1..Len(ms) : ms[j].priceValue <= ms[k].priceValue}
Cheapest(ms) == {k \in 1..Len(ms) : \A j \in 1..Len(ms) : ms[k].priceValue <= ms[j].priceValue}

\* C15 (as amended): for a question with most-expensive intent and a
\* non-empty match list, the answer names the match of maximum priceValue
\* and, when several matches share the maximum, the one that occurs last
\* in the match list.
C15_MostExpensiveLast ==
    pout # Null /\ pin[1].question = Q_MaisCaro /\ pout[1].matches # <<>> =>
        LET ms == pout[1].matches
            last == CHOOSE k \in Dearest(ms) : \A j \in Dearest(ms) : j <= k
        IN  pout[1].baseline = [kind |-> "pick", lines |-> <<Line(ms[last])>>]

\* C15 as the specification states it: when several matches share the
\* maximum priceValue, the answer names the one that occurs first.
C15_AsStated ==
    pout # Null /\ pin[1].question = Q_MaisCaro /\ pout[1].matches # <<>> =>
        LET ms == pout[1].matches
            first == CHOOSE k \in Dearest(ms) : \A j \in Dearest(ms) : k <= j
        IN  pout[1].baseline = [kind |-> "pick", lines |-> <<Line(ms[first])>>]

\* "Qual o sapate^nis mais caro?" on a catalog where "Sapate^nis Preto"
\* and "Sapatennis Azul" both cost 120.00: the former comes first in the
\* match list and the answer names the latter.
C15_Witness ==
    /\ pout # Null
    /\ pin[1].question = Q_MaisCaro
    /\ Len(pout[1].matches) = 3
    /\ pout[1].matches[1].url = 1
    /\ pout[1].matches[2].url = 4
    /\ pout[1].matches[3].url = 2
    /\ pout[1].matches[2].priceValue = pout[1].matches[3].priceValue
    /\ pout[1].baseline.lines[1].name = P_SapatennisAzul

\* C16: for a question that asks a price or wants the cheapest, and does
\* not want the most expensive, with a non-empty match list, the answer
\* gives the name, the display price and the URL of a match whose
\* priceValue is the least of the match list.
C16_CheapestPicked ==
    pout # Null /\ pin[1].question \in {Q_Tenis, Q_SapatenisVerde, Q_MaisBarato}
        /\ pout[1].matches # <<>> =>
        LET ms == pout[1].matches
        IN  /\ pout[1].baseline.kind = "pick"
            /\ \E k \in Cheapest(ms) :
                  pout[1].baseline.lines =
                      <<[name |-> ms[k].name, price |-> ms[k].price, url |-> ms[k].url]>>

\* "Quanto custa o sapate^nis verde?": the first match is "Sapate^nis
\* Verde" at 80.00, by its score, and the answer gives "Sapate^nis
\* Marrom" at 70.00.
C16_Witness ==
    /\ pout # Null
    /\ pin[1].question = Q_SapatenisVerde
    /\ Len(pout[1].matches) > 1
    /\ pout[1].matches[1].url = 1
    /\ pout[1].baseline.lines =
          <<[name |-> P_SapatenisMarrom,
             price |-> <<"R", "$", " ", "7", "0", ",", "0", "0">>, url |-> 7]>>

\* What the synchronous part of the POST handler computes for request r
\* from the list it read after ensureCatalog.
MatchesOf(r) == findMatches(Trim(req[r].question), seen[r][1])
BaselineOf(r) == makeDeterministicAnswer(Trim(req[r].question), MatchesOf(r))

\* C17: the response to a POST with a question has status 200 and the
\* matches findMatches computed, whatever the rewrite call did; and when
\* the key is not configured, the rewrite was not called, or it threw, the
\* answer of the response is the baseline.
C17_BaselineFallback ==
    \A r \in Reqs :
        pc[r] = "done" /\ req[r].method = "POST" /\ EnsuresCatalog(req[r]) =>
            /\ resp[r].status = 200
            /\ resp[r].kind = "answer"
            /\ resp[r].matches = MatchesOf(r)
            /\ (~OPENAI_API_KEY \/ rewrote[r] \in {"none", "throw"}) =>
                   resp[r].answer = BaselineOf(r)

\* A POST whose rewrite call threw was answered with the pick of the
\* baseline and its match.
C17_Witness ==
    \E r \in Reqs :
        /\ pc[r] = "done"
        /\ req[r].method = "POST"
        /\ OPENAI_API_KEY
        /\ rewrote[r] = "throw"
        /\ resp[r].status = 200
        /\ resp[r].matches # <<>>
        /\ resp[r].answer.kind = "pick"

\* C18 (as amended): for every price v >= 0 of whole cents, the text
\* fromNumberToBRL(v), once its "R$" prefix is removed and it is trimmed,
\* is parsed by toNumberBRL to v.
C18_RoundTripStripped ==
    pout # Null => pout[1].stripped = Some(pin[1])

\* C18 as the specification states it: toNumberBRL(fromNumberToBRL(v)) = v.
C18_AsStated ==
    pout # Null => pout[1].parsed = Some(pin[1])

\* 1,485.53 is formatted as "R$ 1485,53"; with the prefix the text is not
\* a number, without it the price is read back.
C18_Witness ==
    /\ pout # Null
    /\ pin[1] = 148553
    /\ pout[1].text = <<"R", "$", " ", "1", "4", "8", "5", ",", "5", "3">>
    /\ pout[1].parsed = Null
    /\ pout[1].stripped = Some(148553)

\* What the detail pages of u can give for each field.
DetailsOf(u) == {extractFromProductPage(pg, u) : pg \in DetailPages(u)}

\* The job at the head of the microtask queue is the callback of the
\* detail fetch of u in the cycle of request r.
CallbackNext(r, u) ==
    /\ queue # <<>>
    /\ Head(queue).r = r
    /\ Head(queue).kind = "callback"
    /\ Head(queue).u = u

\* C19: in the step in which the callback of the detail fetch of u runs,
\* the entries of the cycle's map keep their URLs and their order, every
\* entry but that of u is unchanged, and a field of the entry of u changes
\* only to a value the page of u resolved: a name that is not empty, a
\* display price or a numeric price that is not null; and no other step of
\* the detail phase changes the map.
C19_ResolvedFieldsOnly ==
    [][\A r \in Reqs :
          /\ (pc[r] \in {"detail", "settled"} /\ found'[r] # found[r]) =>
                \E u \in Urls : CallbackNext(r, u)
          /\ \A u \in Urls : CallbackNext(r, u) =>
                /\ Len(found'[r]) = Len(found[r])
                /\ \A i \in 1..Len(found[r]) :
                      LET old == found[r][i]
                          new == found'[r][i]
                      IN  /\ new.url = old.url
                          /\ old.url # u => new = old
                          /\ new.name # old.name =>
                                new.name # <<>> /\ \E d \in DetailsOf(u) : d.name = new.name
                          /\ new.price # old.price =>
                                new.price # Null /\ \E d \in DetailsOf(u) : d.price = new.price
                          /\ new.priceValue # old.priceValue =>
                                new.priceValue # Null
                                /\ \E d \in DetailsOf(u) : d.priceNum = new.priceValue]_vars


\* The fetches of products 1, 2 and 3 succeeded. The page of 1 gave a name
\* and no price: the entry has the new name and no price. The page of 2
\* gave no name and the price 0 with no display price: the entry keeps
\* the name of the listing, has the numeric price and no display price.
\* The entry of 4, whose fetch has not settled, is as the listing left it.
C19_Witness ==
    /\ pc[1] = "detail"
    /\ dstat[1][1] = "ok" /\ dstat[1][2] = "ok" /\ dstat[1][3] = "ok"
    /\ 4 \in inflight[1]
    /\ EntryOf(found[1], 1) =
          [url |-> 1, name |-> N_TenisPro, price |-> Null, priceValue |-> Null]
    /\ EntryOf(found[1], 2) =
          [url |-> 2, name |-> ListingName(2), price |-> Null, priceValue |-> Some(0)]
    /\ EntryOf(found[1], 3).name = ListingName(3)
    /\ EntryOf(found[1], 3).priceValue # Null
    /\ EntryOf(found[1], 4) = EntryOf(listed[1], 4)

\* A step that writes the product list or the timestamp is the step in
\* which a cycle ends: every configured listing page
\* has been fetched, every discovered product page has been fetched and
\* has settled, none is in flight, every callback has finished, and the
\* list and the timestamp are written together.
WritesAtCycleEnd ==
    [][CACHE' # CACHE =>
          \E r \in Reqs :
              /\ Refreshing(r)
              /\ pc'[r] = "resume"
              /\ lfetch'[r] = NListing
              /\ inflight'[r] = {}
              /\ remaining'[r] = {}
              /\ \A u \in disc'[r] : dfetch'[r][u] = 1 /\ dstat'[r][u] # "none"
              /\ installed'[r] = Some(CACHE')
              /\ CACHE'.lastScrape = now]_vars

\* A started cycle leads to its completion.
CycleCompletes == \A r \in Reqs : Refreshing(r) ~> CycleDone(r)

Responded(r) == pc[r] = "done" /\ resp[r].status = 200

\* C20 (as amended): if every listing and detail fetch settles, every
\* started cycle completes, installing the list and the timestamp, which
\* are written only then, after all fetches of the cycle have settled; and
\* if moreover the rewrite call, when one is made, settles, the request
\* that started the cycle gets its response.
C20_CycleCompletes ==
    /\ WritesAtCycleEnd
    /\ CycleCompletes
    /\ (\A r \in Reqs : WF_vars(RewriteSettle(r))) =>
           \A r \in Reqs : Refreshing(r) ~> Responded(r)

\* C20 as the specification states it: if every listing and detail fetch
\* settles, every started cycle completes and the request that started it
\* gets its response.
C20_AsStated ==
    \A r \in Reqs : Refreshing(r) ~> Responded(r)

\* The cycle of a POST has completed with every product page fetched, and
\* the request waits for the rewrite call.
C20_Witness ==
    /\ pc[1] = "rewrite"
    /\ req[1].method = "POST"
    /\ Len(CACHE.products) = limit + ExtraShop
    /\ CACHE.lastScrape = now
    /\ inflight[1] = {}
    /\ resp[1] = NoResponse

\* C21 as the specification states it: the updatedAt of a POST response
\* is the refresh timestamp the cache had when the handler computed the
\* returned matches from its product list.
C21_AsStated ==
    \A r \in Reqs :
        pc[r] = "done" /\ resp[r].kind = "answer" =>
            /\ resp[r].matches = MatchesOf(r)
            /\ resp[r].updatedAt = seenAt[r][1]

\* The POST of the first request computed its matches from the list its
\* own cycle installed and waited for the rewrite call; the forced cycle
\* of the second request installed a list one millisecond later, and the
\* response carries the matches of the first list with the timestamp of
\* the second.
C21_Witness ==
    /\ pc[1] = "done"
    /\ req[1].method = "POST"
    /\ rewrote[1] # "none"
    /\ resp[1].matches = MatchesOf(1)
    /\ resp[1].matches # <<>>
    /\ req[2].method = "GET" /\ req[2].refresh
    /\ pc[2] \in {"resume", "done"}
    /\ resp[1].updatedAt = seenAt[1][1] + 1
    /\ resp[1].updatedAt = CACHE.lastScrape

====
